---- MODULE Spec2Model ----
(***************************************************************************)
(* aptmirs: the mirroring pipeline of one target.                          *)
(*                                                                         *)
(* The model follows one target through consecutive invocations of         *)
(* `mirror`: the staging directory, the committed tree under root_dir, the *)
(* bounded download channel, the worker tasks and the shared progress      *)
(* counters.  Steps are the ones of src/mirror/step/*.rs, the exit paths   *)
(* (delete_tmp / finalize) are the ones of src/mirror.rs, the commit is    *)
(* Context::finalize / Repository::finalize.                               *)
(*                                                                         *)
(* The environment injects at most MaxFaults faults (404, wrong body,       *)
(* transport error, malformed index, I/O error of the commit) in the        *)
(* invocations of one behaviour; the first invocation starts on an empty    *)
(* root_dir, where --force makes no difference, later ones choose it.       *)
(*                                                                         *)
(* Three further specifications share the variables of the module, each   *)
(* leaving the pipeline at rest: SpecMain is `main` going through the       *)
(* targets of a config file (read_config, Context::build, mirror),          *)
(* SpecLock is create_tmp_dir run by concurrent invocations for one target, *)
(* SpecPgp is verify_release_signature on the downloaded release files.     *)
(*                                                                         *)
(* A path is a pair <<name, h>>: <<name, 0>> is the human readable path,   *)
(* <<name, h>> with h > 0 is its by-hash neighbour for digest h.           *)
(* A content is a number: 0 is an empty or partially written file,         *)
(* 1..MaxVer are contents whose digest is their number, BadContent is a    *)
(* complete body whose digest matches no manifest or index entry.          *)
(***************************************************************************)
EXTENDS Integers, Sequences, FiniteSets, TLC

\* ------------------------------------------------------------ bounds ----
NumWorkers == 2
MaxRuns == 2
MaxVer == 2
QueueCap == 2
NumRefs == 2
MaxFaults == 1
NumTargets == 2
MaxLines == 3
NumInvocations == 3
MaxOpts == 2
MaxDepth == 2
NumCallers == 2
MaxCalls == 2
NumVPaths == 2
NumEntries == 2
NumImages == 2
MaxManifest == 3
MaxPkgLines == 5
MaxIndices == 3
CmdSteps == 2
MaxBody == 2
MaxOutside == 1

\* ------------------------------------------------------------ values ----
Workers == 1..NumWorkers
ReleaseNames == <<"InRelease", "Release", "Release.gpg">>
RelNameSet == {"InRelease", "Release", "Release.gpg"}
MetaNames == {"Packages", "Index", "SUMS"}
ArtifactNames == {"deb", "diff", "img"}
Names == RelNameSet \cup MetaNames \cup ArtifactNames
Paths == (Names \X {0}) \cup (MetaNames \X (1..MaxVer))
BadContent == MaxVer + 1
NoPath == <<"", 0>>
NoSize == -1
NoChecksum == 0

NoFile == [t |-> "none", c |-> 0, to |-> NoPath, w |-> FALSE, vf |-> FALSE]
RegFile(c, vf) == [t |-> "file", c |-> c, to |-> NoPath, w |-> TRUE, vf |-> vf]
SymLink(p) == [t |-> "link", c |-> 0, to |-> p, w |-> TRUE, vf |-> FALSE]
EmptyFs == [p \in Paths |-> NoFile]

\* FilePath::exists follows symbolic links (std::path::Path::metadata)
Exists(fs, p) ==
    \/ fs[p].t = "file"
    \/ fs[p].t = "link" /\ fs[fs[p].to].t = "file"

\* the body read through a path (symlinks resolved)
ContentAt(fs, p) ==
    IF fs[p].t = "file" THEN fs[p].c
    ELSE IF fs[p].t = "link" /\ fs[fs[p].to].t = "file" THEN fs[fs[p].to].c
    ELSE 0

\* metadata().len(): every complete body has the size its index states
SizeOf(c) == IF c = 0 THEN 0 ELSE 1
EntrySize == 1

Present(fs) == {p \in Paths : fs[p].t # "none"}

NoReq == [name |-> "", loc |-> "", path |-> NoPath, size |-> NoSize,
          cks |-> NoChecksum, links |-> {}, always |-> FALSE]
Idle == [busy |-> FALSE, req |-> NoReq]
ZeroPart == [total |-> 0, success |-> 0, skipped |-> 0, failed |-> 0]

\* the upstreams and options the runs are checked against
Scenarios ==
    [avail : {RelNameSet}, sigok : {TRUE}, byhash : BOOLEAN, di : BOOLEAN]
    \cup {[avail |-> {"Release", "Release.gpg"}, sigok |-> TRUE, byhash |-> FALSE, di |-> FALSE],
          [avail |-> {"Release"}, sigok |-> TRUE, byhash |-> FALSE, di |-> FALSE],
          [avail |-> {}, sigok |-> TRUE, byhash |-> FALSE, di |-> FALSE],
          [avail |-> RelNameSet, sigok |-> FALSE, byhash |-> FALSE, di |-> FALSE]}

StepErrors == {"ErrDownloadRelease", "ErrInconsistentRepository", "ErrDownloadDiffs",
               "ErrDownloadPackages", "ErrDownloadDebianInstaller"}
CommitResults == {"NewRelease", "IrrelevantChanges"}

VARIABLES
    up,          \* upstream: release version, metadata digest, served release files, signature, by-hash
    di,          \* MirrorOpts::debian_installer()
    force,       \* CliOpts::force of the current invocation
    root,        \* files under root_dir
    tmp,         \* files under the staging directory
    tmpDir,      \* the staging directory exists
    queue,       \* the bounded download channel
    worker,      \* the download tasks
    files,       \* Progress::files
    pc,          \* position of the driver
    run,         \* number of the current invocation
    result,      \* result of the current invocation
    release,     \* StepOutput::release, the parsed manifest
    todo,        \* requests the current step has still to enqueue
    indices,     \* StepOutput::package_indices
    diffIdx,     \* StepOutput::diff_indices
    sumfiles,    \* StepOutput::di_sumfiles
    deletePaths, \* StepOutput::delete_paths
    commitKind,  \* which exit path of mirror() performs the commit
    walkRev,     \* the order in which read_dir lists the staging tree
    faults,      \* number of faults the environment has injected so far
    root0,       \* history: root_dir when the invocation started
    moved,       \* history: paths renamed from staging into root_dir by this invocation
    fetches,     \* history: HTTP GETs issued per fingerprint by this invocation
    step,        \* history: last step this invocation began
    outcomes,    \* history: terminal outcomes of the requests per name
    traversed,   \* history: digest the traversed index states per artifact
    prevResult,  \* history: result of the previous invocation
    upChanged,   \* history: upstream changed since the previous invocation
    config,      \* main: the config file, "unreadable" or its lines
    stale,       \* main: targets whose staging directory exists when main starts
    opts,        \* main: the Vec<MirrorOpts> read_config returned
    idx,         \* main: position of the `for mirror_opts in opts` loop
    attempted,   \* main: the targets gone through so far, each with how it ended
    exitCode,    \* main: exit status of the process, -1 while it runs
    mpc,         \* main: where main is
    inv,         \* create_tmp_dir: where each concurrent invocation for one target is
    lockDir,     \* create_tmp_dir: the staging directory of the target exists
    pgpIn,       \* verify_release_signature: the downloaded files and the signatures' validity
    pgpOut,      \* verify_release_signature: what the release step got back
    verified_set, \* Verifier: the paths queue has observed
    vchannel,    \* Verifier: the tasks sent and not yet received by a worker
    vtotal,      \* Verifier: progress.files.total
    caller,      \* Verifier: where each task calling queue is, and with which path
    sent,        \* Verifier history: how often each path was sent to the workers
    hashed,      \* Verifier history: how often each path was hashed by a worker
    arg,         \* a function checked on its own: the function and its arguments
    ret          \* a function checked on its own: what it returned

mainVars == <<config, stale, opts, idx, attempted, exitCode, mpc>>
lockVars == <<inv, lockDir>>
pgpVars == <<pgpIn, pgpOut>>
fnVars == <<arg, ret>>
verifierVars == <<verified_set, vchannel, vtotal, caller, sent, hashed>>
auxVars == <<mainVars, lockVars, pgpVars, fnVars, verifierVars>>

pipelineVars == <<up, di, force, root, tmp, tmpDir, queue, worker, files, pc, run, result,
                  release, todo, indices, diffIdx, sumfiles, deletePaths, commitKind,
                  walkRev, faults, root0, moved, fetches, step, outcomes, traversed,
                  prevResult, upChanged>>

vars == <<pipelineVars, auxVars>>

NoRelease == [pkh |-> 0, byhash |-> FALSE]

\* the pipeline before its first invocation, against the upstream and options sc
PipelineInit(sc) ==
    /\ up = [ver |-> 1, pkh |-> 1, avail |-> sc.avail, sigok |-> sc.sigok,
             byhash |-> sc.byhash]
    /\ di = sc.di
    /\ force = FALSE
    /\ root = EmptyFs
    /\ tmp = EmptyFs
    /\ tmpDir = FALSE
    /\ queue = <<>>
    /\ worker = [w \in Workers |-> Idle]
    /\ files = ZeroPart
    /\ pc = "idle"
    /\ run = 1
    /\ result = "none"
    /\ release = NoRelease
    /\ todo = <<>>
    /\ indices = {}
    /\ diffIdx = {}
    /\ sumfiles = {}
    /\ deletePaths = {}
    /\ commitKind = "none"
    /\ walkRev = FALSE
    /\ faults = 0
    /\ root0 = EmptyFs
    /\ moved = {}
    /\ fetches = [n \in Names |-> 0]
    /\ step = 0
    /\ outcomes = [n \in Names |-> {}]
    /\ traversed = [n \in ArtifactNames |-> 0]
    /\ prevResult = "none"
    /\ upChanged = FALSE

\* main has not been entered
MainAtRest ==
    /\ config = [readable |-> TRUE, lines |-> <<>>]
    /\ stale = {}
    /\ opts = <<>>
    /\ idx = 1
    /\ attempted = <<>>
    /\ exitCode = -1
    /\ mpc = "rest"

\* no invocation competes for the staging directory
LockAtRest ==
    /\ inv = [i \in 1..NumInvocations |-> "rest"]
    /\ lockDir = FALSE

\* no signature verification is under way
PgpAtRest ==
    /\ pgpIn = [files |-> {}, pgp_verify |-> FALSE, inline_ok |-> FALSE, standalone_ok |-> FALSE]
    /\ pgpOut = "none"

\* no Verifier is built
VerifierAtRest ==
    /\ verified_set = {}
    /\ vchannel = <<>>
    /\ vtotal = 0
    /\ caller = <<>>
    /\ sent = <<>>
    /\ hashed = <<>>

\* no function is being checked on its own (nor is a Verifier at work)
FnAtRest ==
    /\ arg = [fn |-> "none"]
    /\ ret = [done |-> FALSE]
    /\ VerifierAtRest

\* the pipeline of one target, left alone
PipelineAtRest ==
    PipelineInit([avail |-> RelNameSet, sigok |-> TRUE, byhash |-> FALSE, di |-> FALSE])

Init ==
    /\ \E sc \in Scenarios : PipelineInit(sc)
    /\ MainAtRest
    /\ LockAtRest
    /\ PgpAtRest
    /\ FnAtRest

\* ------------------------------------------------- repository layout ----
\* variant: staged files are placed under root_dir
to_path_in_tmp_root == "root"

\* Repository::to_path_in_tmp
to_path_in_tmp == "tmp"

\* Repository::to_path_in_root
to_path_in_root == "root"

\* Repository::create_metadata_download with FileEntry::into_paths
create_metadata_download(n, h, by_hash) ==
    [name |-> n, loc |-> to_path_in_tmp,
     path |-> IF by_hash THEN <<n, h>> ELSE <<n, 0>>,
     size |-> EntrySize, cks |-> h,
     links |-> IF by_hash THEN {<<n, 0>>} ELSE {},
     always |-> FALSE]

\* variant: the request carries no checksum
create_file_download_nocks(n, h) ==
    [name |-> n, loc |-> to_path_in_root, path |-> <<n, 0>>, size |-> EntrySize,
     cks |-> NoChecksum, links |-> {}, always |-> FALSE]

\* Repository::create_file_download
create_file_download(n, h) ==
    [name |-> n, loc |-> to_path_in_root, path |-> <<n, 0>>, size |-> EntrySize,
     cks |-> h, links |-> {}, always |-> FALSE]

\* the Download built by DownloadFromDiffs::execute
diff_download(n, h) ==
    [name |-> n, loc |-> to_path_in_root, path |-> <<n, 0>>, size |-> EntrySize,
     cks |-> h, links |-> {}, always |-> FALSE]

\* Repository::create_raw_download
create_raw_download(n, h) ==
    [name |-> n, loc |-> to_path_in_tmp, path |-> <<n, 0>>, size |-> NoSize,
     cks |-> h, links |-> {}, always |-> TRUE]

\* variant: the staging tree is kept
delete_tmp_kept(fs) == fs

\* Repository::delete_tmp: remove_dir_all(tmp_dir)
delete_tmp(fs) == EmptyFs

\* ------------------------------------------------------- downloader ----
\* needs_downloading
needs_downloading(fs, dl) ==
    IF dl.always THEN TRUE
    ELSE IF Exists(fs, dl.path)
         THEN IF dl.size # NoSize THEN dl.size # SizeOf(ContentAt(fs, dl.path)) ELSE FALSE
         ELSE TRUE

\* variant: every body is accepted
checksum_matches_any(expected, computed) == TRUE

\* download_file: `expected_checksum != checksum` decides between keeping and removing
checksum_matches(expected, computed) == expected = computed

\* download_file: the symlink loop
with_symlinks(fs, links, primary) ==
    [p \in Paths |-> IF p \in links /\ fs[p].t = "none" THEN SymLink(primary) ELSE fs[p]]

\* ProgressPart::remaining
remaining(part) == part.total - part.success - part.skipped

\* ProgressPart::failed: the counter ProgressPart::inc_failed adds to
failed(part) == part.failed

\* DownloadMetadata::execute: `ctx.progress.files.failed() > 0`
inconsistent_repository(part) == failed(part) > 0

Fs(loc) == IF loc = "tmp" THEN tmp ELSE root

SetFs(loc, newfs, mkdirs) ==
    IF loc = "tmp"
    THEN /\ tmp' = newfs
         /\ tmpDir' = (tmpDir \/ mkdirs)
         /\ root' = root
    ELSE /\ root' = newfs
         /\ tmp' = tmp
         /\ tmpDir' = tmpDir

Drained == queue = <<>> /\ \A w \in Workers : ~worker[w].busy

driverVars == <<auxVars, up, di, force, pc, run, result, release, todo, indices, diffIdx, sumfiles,
                deletePaths, commitKind, walkRev, root0, moved, step, traversed, prevResult, upChanged>>

\* worker loop: recv() then download_file up to the point where the GET is sent,
\* or the whole of download_file when nothing has to be fetched
WorkerBegin(w) ==
    /\ ~worker[w].busy
    /\ queue # <<>>
    /\ LET dl == Head(queue)
           fs == Fs(dl.loc)
       IN /\ queue' = Tail(queue)
          /\ IF needs_downloading(fs, dl)
             THEN /\ SetFs(dl.loc, [fs EXCEPT ![dl.path] = RegFile(0, FALSE)], TRUE)
                  /\ worker' = [worker EXCEPT ![w] = [busy |-> TRUE, req |-> dl]]
                  /\ fetches' = [fetches EXCEPT ![dl.name] = @ + 1]
                  /\ UNCHANGED <<files, outcomes>>
             ELSE /\ SetFs(dl.loc, with_symlinks(fs, dl.links, dl.path), dl.links # {})
                  /\ files' = [files EXCEPT !.skipped = @ + 1]
                  /\ outcomes' = [outcomes EXCEPT ![dl.name] = @ \cup {"skipped"}]
                  /\ UNCHANGED <<worker, fetches>>
    /\ UNCHANGED faults
    /\ UNCHANGED driverVars

\* download_file after the response arrived: the body was streamed and its digest compared
WorkerBody(w) ==
    /\ worker[w].busy
    /\ LET dl == worker[w].req
           fs == Fs(dl.loc)
       IN \E served \in {dl.cks} \cup (IF faults < MaxFaults THEN {BadContent} ELSE {}) :
            /\ faults' = IF served = dl.cks THEN faults ELSE faults + 1
            /\ IF checksum_matches(dl.cks, served)
               THEN /\ SetFs(dl.loc,
                             with_symlinks(
                               IF fs[dl.path].t = "file"
                               THEN [fs EXCEPT ![dl.path] = RegFile(served, dl.cks = served)]
                               ELSE fs,
                               dl.links, dl.path),
                             dl.links # {})
                    /\ files' = [files EXCEPT !.success = @ + 1]
                    /\ outcomes' = [outcomes EXCEPT ![dl.name] = @ \cup {"ok"}]
               ELSE /\ SetFs(dl.loc, [fs EXCEPT ![dl.path] = NoFile], FALSE)
                    /\ files' = [files EXCEPT !.skipped = @ + 1]
                    /\ outcomes' = [outcomes EXCEPT ![dl.name] = @ \cup {"failed"}]
    /\ worker' = [worker EXCEPT ![w] = Idle]
    /\ UNCHANGED <<queue, fetches>>
    /\ UNCHANGED driverVars

\* download_file: 404, the destination is removed and Err(Download) returned
WorkerNotFound(w) ==
    /\ worker[w].busy
    /\ faults < MaxFaults
    /\ faults' = faults + 1
    /\ LET dl == worker[w].req
       IN SetFs(dl.loc, [Fs(dl.loc) EXCEPT ![dl.path] = NoFile], FALSE)
    /\ files' = [files EXCEPT !.skipped = @ + 1]
    /\ outcomes' = [outcomes EXCEPT ![worker[w].req.name] = @ \cup {"failed"}]
    /\ worker' = [worker EXCEPT ![w] = Idle]
    /\ UNCHANGED <<queue, fetches>>
    /\ UNCHANGED driverVars

\* download_file: send() or chunk() fails, `?` returns and the destination stays as it is
WorkerTransportError(w) ==
    /\ worker[w].busy
    /\ faults < MaxFaults
    /\ faults' = faults + 1
    /\ files' = [files EXCEPT !.skipped = @ + 1]
    /\ outcomes' = [outcomes EXCEPT ![worker[w].req.name] = @ \cup {"failed"}]
    /\ worker' = [worker EXCEPT ![w] = Idle]
    /\ UNCHANGED <<queue, fetches, root, tmp, tmpDir>>
    /\ UNCHANGED driverVars

\* ----------------------------------------------------------- driver ----
poolVars == <<queue, worker, fetches, outcomes, faults>>
outputVars == <<release, indices, diffIdx, sumfiles, deletePaths>>

\* the error exits of mirror(): `_ = repo.delete_tmp(); return Err(..)`
Fail(res) ==
    /\ tmp' = delete_tmp(tmp)
    /\ tmpDir' = FALSE
    /\ result' = res
    /\ pc' = "done"

\* main: one invocation starts; Repository::build creates the staging directory
\* (create_tmp_dir) or fails with Tmp when it is already there
StartRun ==
    /\ pc = "idle"
    /\ IF tmpDir
       THEN /\ result' = "ErrTmp"
            /\ pc' = "done"
            /\ UNCHANGED <<tmpDir, files>>
       ELSE /\ tmpDir' = TRUE
            /\ files' = ZeroPart
            /\ result' = "none"
            /\ pc' = "S1"
    /\ UNCHANGED <<auxVars, up, di, force, root, tmp, run, release, todo, commitKind, walkRev, root0,
                   moved, step, traversed, prevResult, upChanged>>
    /\ UNCHANGED <<indices, diffIdx, sumfiles, deletePaths>>
    /\ UNCHANGED poolVars

\* get_release_file: the first of InRelease, Release that was downloaded
get_release_file(downloaded) ==
    IF "InRelease" \in downloaded THEN "InRelease"
    ELSE IF "Release" \in downloaded THEN "Release"
    ELSE ""

\* variant: the release files never compare equal
release_unchanged_never(local, new) == FALSE

\* DownloadRelease::execute: `tmp_checksum == local_checksum`
release_unchanged(local, new) == local = new

\* DownloadRelease::execute
DownloadRelease ==
    /\ pc = "S1"
    /\ step' = 1
    /\ LET got == up.avail
           rel == get_release_file(got)
           staged == [p \in Paths |->
                        IF p[2] = 0 /\ p[1] \in got THEN RegFile(up.ver, FALSE) ELSE tmp[p]]
       IN /\ files' = [total |-> 3, success |-> Cardinality(got),
                       skipped |-> 3 - Cardinality(got), failed |-> 0]
          /\ IF ~up.sigok \/ rel = ""
             THEN /\ Fail("ErrDownloadRelease")
                  /\ UNCHANGED release
             ELSE IF /\ root[<<rel, 0>>].t # "none"
                     /\ ~force
                     /\ release_unchanged(ContentAt(root, <<rel, 0>>), up.ver)
             THEN /\ tmp' = delete_tmp(staged)
                  /\ tmpDir' = FALSE
                  /\ result' = "ReleaseUnchanged"
                  /\ pc' = "done"
                  /\ UNCHANGED release
             ELSE /\ tmp' = staged
                  /\ release' = [pkh |-> up.pkh, byhash |-> up.byhash]
                  /\ pc' = "S2"
                  /\ UNCHANGED <<tmpDir, result>>
    /\ UNCHANGED <<auxVars, up, di, force, root, run, todo, indices, diffIdx, sumfiles, deletePaths,
                   commitKind, walkRev, root0, moved, traversed, prevResult, upChanged>>
    /\ UNCHANGED poolVars

\* the manifest entries the filter retains, in the order of the BTreeMap
ManifestSeq == IF di THEN <<"Packages", "Index", "SUMS">> ELSE <<"Packages", "Index">>

\* DownloadMetadata::execute: the entry is already committed and is not queued
already_committed(n, h, by_hash) ==
    IF n = "SUMS"
    THEN Exists(root, <<n, 0>>) /\ ~force
    ELSE (~by_hash \/ Exists(root, <<n, h>>)) /\ Exists(root, <<n, 0>>) /\ ~force

\* DownloadMetadata::execute up to the end of its loop body decisions
PrepareMetadata ==
    /\ pc = "S2"
    /\ step' = 2
    /\ files' = ZeroPart
    /\ LET h == release.pkh
           byh == release.byhash
           wanted == SelectSeq(ManifestSeq, LAMBDA n : ~already_committed(n, h, byh))
           names == {wanted[i] : i \in 1..Len(wanted)}
       IN /\ todo' = [i \in 1..Len(wanted) |->
                        create_metadata_download(wanted[i], h, byh /\ wanted[i] # "SUMS")]
          /\ indices' = {n \in names : n = "Packages"}
          /\ diffIdx' = {n \in names : n = "Index"}
          /\ sumfiles' = {n \in names : n = "SUMS"}
    /\ pc' = "S2q"
    /\ UNCHANGED <<auxVars, up, di, force, root, tmp, tmpDir, run, result, release, deletePaths,
                   commitKind, walkRev, root0, moved, traversed, prevResult, upChanged>>
    /\ UNCHANGED poolVars

\* Downloader::queue, called from the loop of the current step
Enqueue ==
    /\ pc \in {"S2q", "S3q", "S4q", "S5q"}
    /\ todo # <<>>
    /\ Len(queue) < QueueCap
    /\ files' = [files EXCEPT !.total = @ + 1]
    /\ queue' = Append(queue, Head(todo))
    /\ todo' = Tail(todo)
    /\ UNCHANGED <<auxVars, up, di, force, root, tmp, tmpDir, worker, pc, run, result, root0, moved,
                   fetches, step, outcomes, traversed, commitKind, walkRev, prevResult, upChanged,
                   faults>>
    /\ UNCHANGED outputVars

\* StepOutput::verify_and_prune
verify_and_prune(names) == {n \in names : Exists(tmp, <<n, 0>>)}

\* DownloadMetadata::execute after Progress::wait_for_completion returned
FinishMetadata ==
    /\ pc = "S2q"
    /\ todo = <<>>
    /\ remaining(files) = 0
    /\ IF inconsistent_repository(files)
       THEN /\ Fail("ErrInconsistentRepository")
            /\ UNCHANGED <<indices, diffIdx, sumfiles, commitKind>>
       ELSE /\ indices' = verify_and_prune(indices)
            /\ diffIdx' = verify_and_prune(diffIdx)
            /\ sumfiles' = verify_and_prune(sumfiles)
            /\ IF indices' = {} /\ diffIdx' = {} /\ sumfiles' = {}
               THEN /\ pc' = "commit"
                    /\ commitKind' = "IrrelevantChanges"
               ELSE /\ pc' = "S3"
                    /\ UNCHANGED commitKind
            /\ UNCHANGED <<tmp, tmpDir, result>>
    /\ UNCHANGED <<auxVars, up, di, force, root, files, run, release, todo,
                   deletePaths, walkRev, root0, moved, step, traversed, prevResult, upChanged>>
    /\ UNCHANGED poolVars

\* DownloadFromDiffs::execute: every diff index is parsed, its entries become requests
PrepareDiffs ==
    /\ pc = "S3"
    /\ step' = 3
    /\ files' = ZeroPart
    /\ LET h == ContentAt(tmp, <<"Index", 0>>)
       IN IF diffIdx = {}
          THEN todo' = <<>> /\ UNCHANGED traversed
          ELSE /\ todo' = <<diff_download("diff", h)>>
               /\ traversed' = [traversed EXCEPT !["diff"] = h]
    /\ pc' = "S3q"
    /\ UNCHANGED <<auxVars, up, di, force, root, tmp, tmpDir, run, result, root0, moved, commitKind, walkRev,
                   prevResult, upChanged>>
    /\ UNCHANGED poolVars
    /\ UNCHANGED outputVars

\* DownloadFromDiffs::execute after Progress::wait_for_completion returned
FinishDiffs ==
    /\ pc = "S3q"
    /\ todo = <<>>
    /\ remaining(files) = 0
    /\ pc' = "S4"
    /\ UNCHANGED <<auxVars, up, di, force, root, tmp, tmpDir, files, run, result, todo, root0, moved,
                   step, traversed, commitKind, walkRev, prevResult, upChanged>>
    /\ UNCHANGED poolVars
    /\ UNCHANGED outputVars

\* DownloadFromPackageIndices::execute: the kept index is read, one request per entry
PreparePackages ==
    /\ pc = "S4"
    /\ step' = 4
    /\ files' = ZeroPart
    /\ LET h == ContentAt(tmp, <<"Packages", 0>>)
       IN IF indices = {}
          THEN todo' = <<>> /\ UNCHANGED traversed
          ELSE /\ todo' = [i \in 1..NumRefs |-> create_file_download("deb", h)]
               /\ traversed' = [traversed EXCEPT !["deb"] = h]
    /\ indices' = {}
    /\ pc' = "S4q"
    /\ UNCHANGED <<auxVars, up, di, force, root, tmp, tmpDir, run, result, release, diffIdx, sumfiles,
                   deletePaths, root0, moved, commitKind, walkRev, prevResult, upChanged>>
    /\ UNCHANGED poolVars

\* DownloadFromPackageIndices::execute after Progress::wait_for_completion returned;
\* mirror(): the installer step runs only when opts.debian_installer()
FinishPackages ==
    /\ pc = "S4q"
    /\ todo = <<>>
    /\ remaining(files) = 0
    /\ IF di
       THEN pc' = "S5" /\ UNCHANGED commitKind
       ELSE pc' = "commit" /\ commitKind' = "NewRelease"
    /\ UNCHANGED <<auxVars, up, di, force, root, tmp, tmpDir, files, run, result, todo, walkRev, root0,
                   moved, step, traversed, prevResult, upChanged>>
    /\ UNCHANGED poolVars
    /\ UNCHANGED outputVars

\* DownloadDebianInstaller::execute: every entry of a sum file becomes an always-fetch
\* request
PrepareDebianInstaller ==
    /\ pc = "S5"
    /\ step' = 5
    /\ files' = ZeroPart
    /\ LET h == ContentAt(tmp, <<"SUMS", 0>>)
       IN IF sumfiles = {}
          THEN todo' = <<>> /\ UNCHANGED traversed
          ELSE /\ todo' = <<create_raw_download("img", h)>>
               /\ traversed' = [traversed EXCEPT !["img"] = h]
    /\ pc' = "S5q"
    /\ UNCHANGED <<auxVars, up, di, force, root, tmp, tmpDir, run, result, release, indices, diffIdx,
                   sumfiles, deletePaths, root0, moved, commitKind, walkRev, prevResult, upChanged>>
    /\ UNCHANGED poolVars

\* DownloadDebianInstaller::execute after its loop: the image directory of every sum
\* file is added to delete_paths, Progress::wait_for_completion returns
FinishDebianInstaller ==
    /\ pc = "S5q"
    /\ todo = <<>>
    /\ remaining(files) = 0
    /\ deletePaths' = IF sumfiles = {} THEN deletePaths ELSE {<<"SUMS", 0>>, <<"img", 0>>}
    /\ pc' = "commit"
    /\ commitKind' = "NewRelease"
    /\ UNCHANGED <<auxVars, up, di, force, root, tmp, tmpDir, files, run, result, todo, walkRev, root0,
                   moved, step, traversed, prevResult, upChanged>>
    /\ UNCHANGED <<release, indices, diffIdx, sumfiles>>
    /\ UNCHANGED poolVars

\* variant: every step wraps its error as the package step does
StepErrorOf_packages(p) == "ErrDownloadPackages"

\* the error a step's Err arm builds: MirsError::DownloadDiffs / DownloadPackages /
\* DownloadDebianInstaller { inner }
StepErrorOf(p) ==
    IF p = "S3q" THEN "ErrDownloadDiffs"
    ELSE IF p = "S4q" THEN "ErrDownloadPackages"
    ELSE "ErrDownloadDebianInstaller"

\* an index turns out to be malformed while the step reads it: `entry?` / `package?` /
\* DiffIndexFile::parse(..)? leaves execute with Err, mirror() deletes the staging directory
StepError ==
    /\ pc \in {"S3q", "S4q", "S5q"}
    /\ todo # <<>>
    /\ faults < MaxFaults
    /\ faults' = faults + 1
    /\ Fail(StepErrorOf(pc))
    /\ UNCHANGED <<auxVars, up, di, force, root, files, run, todo, root0, moved, step, traversed,
                   commitKind, walkRev, prevResult, upChanged>>
    /\ UNCHANGED <<queue, worker, fetches, outcomes>>
    /\ UNCHANGED outputVars

\* ----------------------------------------------------------- commit ----
\* variant: finalize goes to the walk without removing the paths to delete
CommitDelete_skipped ==
    /\ pc = "commit"
    /\ pc' = "rebase"
    /\ walkRev' \in BOOLEAN
    /\ UNCHANGED <<auxVars, up, di, force, root, tmp, tmpDir, files, run, result, todo, commitKind, root0,
                   moved, step, traversed, prevResult, upChanged>>
    /\ UNCHANGED poolVars
    /\ UNCHANGED outputVars

\* Context::finalize / Repository::finalize: the paths to delete are removed first
CommitDelete ==
    /\ pc = "commit"
    /\ root' = [p \in Paths |-> IF p \in deletePaths THEN NoFile ELSE root[p]]
    /\ pc' = "rebase"
    /\ walkRev' \in BOOLEAN
    /\ UNCHANGED <<auxVars, up, di, force, tmp, tmpDir, files, run, result, todo, commitKind, root0,
                   moved, step, traversed, prevResult, upChanged>>
    /\ UNCHANGED poolVars
    /\ UNCHANGED outputVars

\* the place of a path in the listing of the staging tree
PathRank(p) ==
    LET names == <<"InRelease", "Release", "Release.gpg", "Packages", "Index", "SUMS",
                   "deb", "diff", "img">>
        i == CHOOSE k \in 1..Len(names) : names[k] = p[1]
    IN i * (MaxVer + 2) + p[2]

\* std::fs::read_dir: the next entry rebase_dir gets; the file system lists a tree in
\* one order or in the opposite one
read_dir(entries, rev) ==
    CHOOSE p \in entries :
        \A q \in entries : IF rev THEN PathRank(q) <= PathRank(p) ELSE PathRank(p) <= PathRank(q)

\* variant: an entry of the staging tree does not replace a file already in root_dir
CommitMove_kept(p) ==
    /\ pc = "rebase"
    /\ Present(tmp) # {}
    /\ p = read_dir(Present(tmp), walkRev)
    /\ root' = [root EXCEPT ![p] = IF root[p].t = "none" THEN tmp[p] ELSE @]
    /\ tmp' = [tmp EXCEPT ![p] = NoFile]
    /\ moved' = moved \cup {p}
    /\ UNCHANGED <<auxVars, up, di, force, tmpDir, files, pc, run, result, todo, commitKind, walkRev, root0,
                   step, traversed, prevResult, upChanged>>
    /\ UNCHANGED poolVars
    /\ UNCHANGED outputVars

\* rebase_dir: one entry of the staging tree is renamed (or copied) to its place in root_dir
CommitMove(p) ==
    /\ pc = "rebase"
    /\ Present(tmp) # {}
    /\ p = read_dir(Present(tmp), walkRev)
    /\ root' = [root EXCEPT ![p] = tmp[p]]
    /\ tmp' = [tmp EXCEPT ![p] = NoFile]
    /\ moved' = moved \cup {p}
    /\ UNCHANGED <<auxVars, up, di, force, tmpDir, files, pc, run, result, todo, commitKind, walkRev, root0,
                   step, traversed, prevResult, upChanged>>
    /\ UNCHANGED poolVars
    /\ UNCHANGED outputVars

\* finalize: after the walk the staging directory is removed and the run has its result
CommitDone ==
    /\ pc = "rebase"
    /\ Present(tmp) = {}
    /\ tmpDir' = FALSE
    /\ result' = commitKind
    /\ pc' = "done"
    /\ UNCHANGED <<auxVars, up, di, force, root, tmp, files, run, todo, commitKind, walkRev, root0, moved,
                   step, traversed, prevResult, upChanged>>
    /\ UNCHANGED poolVars
    /\ UNCHANGED outputVars

\* variant: a failed finalize returns Finalize without deleting the staging directory
CommitFail_kept ==
    /\ pc \in {"commit", "rebase"}
    /\ faults < MaxFaults
    /\ faults' = faults + 1
    /\ result' = IF commitKind = "NewRelease" THEN "ErrFinalize" ELSE "ErrIo"
    /\ pc' = "done"
    /\ UNCHANGED <<tmp, tmpDir>>
    /\ UNCHANGED <<auxVars, up, di, force, root, files, run, todo, commitKind, walkRev, root0, moved, step,
                   traversed, prevResult, upChanged>>
    /\ UNCHANGED <<queue, worker, fetches, outcomes>>
    /\ UNCHANGED outputVars

\* finalize returns an I/O error.  mirror(): after the last step the staging directory is
\* deleted and Finalize returned (lines 144-147); on the IrrelevantChanges exit the error
\* leaves through `?` (line 92)
CommitFail ==
    /\ pc \in {"commit", "rebase"}
    /\ faults < MaxFaults
    /\ faults' = faults + 1
    /\ IF commitKind = "NewRelease"
       THEN Fail("ErrFinalize")
       ELSE /\ result' = "ErrIo"
            /\ pc' = "done"
            /\ UNCHANGED <<tmp, tmpDir>>
    /\ UNCHANGED <<auxVars, up, di, force, root, files, run, todo, commitKind, walkRev, root0, moved, step,
                   traversed, prevResult, upChanged>>
    /\ UNCHANGED <<queue, worker, fetches, outcomes>>
    /\ UNCHANGED outputVars

\* ------------------------------------------------- between two runs ----
NextUp(u) ==
    {u} \cup (IF u.ver < MaxVer
              THEN {[u EXCEPT !.ver = u.ver + 1, !.pkh = k] : k \in {u.pkh, u.pkh + 1}}
              ELSE {})

\* main returns, the runtime drops the download tasks and the channel; the upstream may
\* publish a new release before the next invocation, which builds a new Downloader
NextRun ==
    /\ pc = "done"
    /\ run < MaxRuns
    /\ run' = run + 1
    /\ pc' = "idle"
    /\ prevResult' = result
    /\ result' = "none"
    /\ queue' = <<>>
    /\ worker' = [w \in Workers |-> Idle]
    /\ files' = ZeroPart
    /\ \E u \in NextUp(up) : up' = u /\ upChanged' = (u # up)
    /\ force' \in BOOLEAN
    /\ root' = [p \in Paths |-> IF root[p].t = "none" THEN NoFile
                                ELSE [root[p] EXCEPT !.w = FALSE, !.vf = FALSE]]
    /\ tmp' = [p \in Paths |-> IF tmp[p].t = "none" THEN NoFile
                               ELSE [tmp[p] EXCEPT !.w = FALSE, !.vf = FALSE]]
    /\ root0' = root'
    /\ moved' = {}
    /\ fetches' = [n \in Names |-> 0]
    /\ outcomes' = [n \in Names |-> {}]
    /\ traversed' = [n \in ArtifactNames |-> 0]
    /\ step' = 0
    /\ release' = NoRelease
    /\ todo' = <<>>
    /\ indices' = {}
    /\ diffIdx' = {}
    /\ sumfiles' = {}
    /\ deletePaths' = {}
    /\ commitKind' = "none"
    /\ walkRev' = FALSE
    /\ UNCHANGED <<auxVars, di, tmpDir, faults>>

Next ==
    \/ StartRun
    \/ DownloadRelease
    \/ PrepareMetadata
    \/ Enqueue
    \/ FinishMetadata
    \/ PrepareDiffs
    \/ FinishDiffs
    \/ PreparePackages
    \/ FinishPackages
    \/ PrepareDebianInstaller
    \/ FinishDebianInstaller
    \/ StepError
    \/ CommitDelete
    \/ \E p \in Paths : CommitMove(p)
    \/ CommitDone
    \/ CommitFail
    \/ NextRun
    \/ \E w \in Workers : WorkerBegin(w)
    \/ \E w \in Workers : WorkerBody(w)
    \/ \E w \in Workers : WorkerNotFound(w)
    \/ \E w \in Workers : WorkerTransportError(w)

Spec == Init /\ [][Next]_vars

TypeOK ==
    /\ pc \in {"idle", "S1", "S2", "S2q", "S3", "S3q", "S4", "S4q", "S5", "S5q",
               "commit", "rebase", "done"}
    /\ Len(queue) <= QueueCap
    /\ remaining(files) >= 0
    /\ run \in 1..MaxRuns
    /\ faults \in 0..MaxFaults

\* ------------------------------------------------------------ main ----
\* the (URL, suite) pairs a config line can name
Targets == 1..NumTargets

\* a config line after its comment was cut off and it was trimmed: empty, or its first word
\* and how many of URL and suite follow the options; target is the (URL, suite) pair of a
\* line that has both
ConfigLines ==
    {[first |-> "", words |-> 0, target |-> 0],
     [first |-> "other", words |-> 0, target |-> 0],
     [first |-> "deb", words |-> 0, target |-> 0],
     [first |-> "deb", words |-> 1, target |-> 0]}
    \cup {[first |-> "deb", words |-> 2, target |-> t] : t \in Targets}

\* the config files main is run against: one that cannot be opened, or up to MaxLines lines
Configs ==
    {[readable |-> FALSE, lines |-> <<>>]}
    \cup {[readable |-> TRUE, lines |-> l] : l \in UNION {[1..n -> ConfigLines] : n \in 0..MaxLines}}

\* how mirror() ends for a target whose context was built
Successes == {"NewRelease", "ReleaseUnchanged", "IrrelevantChanges"}
MirrorOutcomes == Successes \cup {"ErrDownloadRelease", "ErrFinalize"}

\* MirrorOpts::try_from(&str)
try_from(line) ==
    IF line.first # "deb" THEN [ok |-> FALSE, target |-> 0]
    ELSE IF line.words = 0 THEN [ok |-> FALSE, target |-> 0]
    ELSE IF line.words = 1 THEN [ok |-> FALSE, target |-> 0]
    ELSE [ok |-> TRUE, target |-> line.target]

\* MirrorOpts::try_from: the options of an accepted line that names no component --
\* `components.push("main")`, `deb` sets packages
default_opts(t) ==
    [target |-> t, components |-> <<"main">>, source |-> FALSE, packages |-> TRUE]

\* read_config, loop body: an empty line is passed over, a line try_from rejects is
\* reported and passed over
pushed(line) == line.first # "" /\ try_from(line).ok

\* merge_similar, inner loops: `if !last.components.contains(&component) { push }`
RECURSIVE push_missing(_, _)
push_missing(list, items) ==
    IF items = <<>> THEN list
    ELSE push_missing(IF \E k \in 1..Len(list) : list[k] = Head(items)
                      THEN list
                      ELSE Append(list, Head(items)),
                      Tail(items))

\* merge_similar, the fold: an entry equal to the last one of the accumulator (same URL and
\* suite) is merged into it, any other entry is pushed
RECURSIVE merge_fold(_, _)
merge_fold(a, rest) ==
    IF rest = <<>> THEN a
    ELSE LET new == Head(rest)
         IN IF a # <<>> /\ a[Len(a)].target = new.target
            THEN merge_fold([a EXCEPT ![Len(a)] =
                               [@ EXCEPT !.components = push_missing(@, new.components),
                                         !.source = @ \/ new.source,
                                         !.packages = @ \/ new.packages]],
                            Tail(rest))
            ELSE merge_fold(Append(a, new), Tail(rest))

\* Vec::sort with Ord on (URL, suite): stable, entries that compare equal keep their order
sort(mirrors) ==
    LET n == Len(mirrors)
        rank(i) == Cardinality({j \in 1..n : \/ mirrors[j].target < mirrors[i].target
                                             \/ /\ mirrors[j].target = mirrors[i].target
                                                /\ j < i})
    IN [k \in 1..n |-> mirrors[CHOOSE i \in 1..n : rank(i) = k - 1]]

\* merge_similar: sort, then fold entries that compare equal into one
merge_similar(mirrors) == merge_fold(<<>>, sort(mirrors))

\* variant: the first line try_from rejects makes read_config return a Config error
read_config_strict(cfg) ==
    IF ~cfg.readable \/ \E i \in 1..Len(cfg.lines) : cfg.lines[i].first # "" /\ ~pushed(cfg.lines[i])
    THEN [ok |-> FALSE, mirrors |-> <<>>]
    ELSE LET kept == SelectSeq(cfg.lines, pushed)
             mirrors == merge_similar([i \in 1..Len(kept) |-> default_opts(try_from(kept[i]).target)])
         IN IF mirrors = <<>>
            THEN [ok |-> FALSE, mirrors |-> <<>>]
            ELSE [ok |-> TRUE, mirrors |-> mirrors]

\* read_config
read_config(cfg) ==
    IF ~cfg.readable
    THEN [ok |-> FALSE, mirrors |-> <<>>]
    ELSE LET kept == SelectSeq(cfg.lines, pushed)
             mirrors == merge_similar([i \in 1..Len(kept) |-> default_opts(try_from(kept[i]).target)])
         IN IF mirrors = <<>>
            THEN [ok |-> FALSE, mirrors |-> <<>>]
            ELSE [ok |-> TRUE, mirrors |-> mirrors]

InitMain ==
    /\ config \in Configs
    /\ stale \in SUBSET Targets
    /\ opts = <<>>
    /\ idx = 1
    /\ attempted = <<>>
    /\ exitCode = -1
    /\ mpc = "start"
    /\ PipelineAtRest
    /\ LockAtRest
    /\ PgpAtRest
    /\ FnAtRest

\* main: `let opts = read_config(&cli_opts.config).await?;`
ReadConfig ==
    /\ mpc = "start"
    /\ LET r == read_config(config)
       IN IF r.ok
          THEN /\ opts' = r.mirrors
               /\ mpc' = "loop"
               /\ UNCHANGED exitCode
          ELSE /\ exitCode' = 1
               /\ mpc' = "exit"
               /\ UNCHANGED opts
    /\ UNCHANGED <<config, stale, idx, attempted>>
    /\ UNCHANGED <<pipelineVars, lockVars, pgpVars, fnVars, verifierVars>>

\* main, loop body: `let ctx = Context::build(mirror_opts, ..)?;` -- Repository::build
\* creates the staging directory or returns Tmp, which `?` returns from main
BuildContext ==
    /\ mpc = "loop"
    /\ idx <= Len(opts)
    /\ IF opts[idx].target \in stale
       THEN /\ attempted' = Append(attempted, [target |-> opts[idx].target, result |-> "ErrTmp"])
            /\ exitCode' = 1
            /\ mpc' = "exit"
       ELSE /\ mpc' = "mirror"
            /\ UNCHANGED <<attempted, exitCode>>
    /\ UNCHANGED <<config, stale, opts, idx>>
    /\ UNCHANGED <<pipelineVars, lockVars, pgpVars, fnVars, verifierVars>>

\* main, loop body: `match mirror::mirror(ctx).await`, both arms log and go on
MirrorTarget ==
    /\ mpc = "mirror"
    /\ \E res \in MirrorOutcomes :
         attempted' = Append(attempted, [target |-> opts[idx].target, result |-> res])
    /\ idx' = idx + 1
    /\ mpc' = "loop"
    /\ UNCHANGED <<config, stale, opts, exitCode>>
    /\ UNCHANGED <<pipelineVars, lockVars, pgpVars, fnVars, verifierVars>>

\* main: the loop is over, `Ok(())`
MainReturn ==
    /\ mpc = "loop"
    /\ idx > Len(opts)
    /\ exitCode' = 0
    /\ mpc' = "exit"
    /\ UNCHANGED <<config, stale, opts, idx, attempted>>
    /\ UNCHANGED <<pipelineVars, lockVars, pgpVars, fnVars, verifierVars>>

NextMain ==
    \/ ReadConfig
    \/ BuildContext
    \/ MirrorTarget
    \/ MainReturn

SpecMain == InitMain /\ [][NextMain]_vars

\* ---------------------------------------------------- merge_similar ----
\* the elements of a sequence
Range(seq) == {seq[i] : i \in 1..Len(seq)}

\* no element occurs twice in the sequence
DuplicateFree(seq) == \A i, j \in 1..Len(seq) : i # j => seq[i] # seq[j]

\* the component lists a config line can give
ComponentLists ==
    {<<"main">>, <<"contrib">>, <<"main", "contrib">>, <<"contrib", "main">>, <<"main", "main">>}

\* what MirrorOpts::try_from returns for the accepted lines: `deb-src` sets source, `deb`
\* sets packages
ParsedOpts ==
    {[target |-> t, components |-> c, source |-> src, packages |-> ~src] :
        t \in Targets, c \in ComponentLists, src \in BOOLEAN}

InitMerge ==
    /\ \E n \in 0..MaxOpts : \E ms \in [1..n -> ParsedOpts] :
         arg = [fn |-> "merge_similar", mirrors |-> ms]
    /\ ret = [done |-> FALSE]
    /\ VerifierAtRest
    /\ PipelineAtRest
    /\ MainAtRest
    /\ LockAtRest
    /\ PgpAtRest

\* read_config: `let mirrors = merge_similar(mirrors);`
MergeSimilar ==
    /\ arg.fn = "merge_similar"
    /\ ~ret.done
    /\ ret' = [done |-> TRUE, val |-> merge_similar(arg.mirrors)]
    /\ UNCHANGED arg
    /\ UNCHANGED <<pipelineVars, mainVars, lockVars, pgpVars, verifierVars>>

NextMerge == MergeSimilar

SpecMerge == InitMerge /\ [][NextMerge]_vars

\* -------------------------------------------------- flat repository ----
\* Strings are sequences of tokens, "/" being a token of its own.
\* the archive URLs of a target, after try_from stripped a trailing '/'
ArchiveUrls == {<<"http://x">>, <<"http://x", "/", "debian">>}

\* the suites of a target: "/" is the flat repository
Suites == {<<"/">>, <<"bookworm">>, <<"stable", "/", "updates">>}

\* MirrorOpts::flat
flat(suite) == suite = <<"/">>

\* MirrorOpts::dist_part
dist_part(suite) == IF flat(suite) THEN <<>> ELSE <<"dists", "/">> \o suite

\* Repository::build: `format_compact!("{root_url}/{}", mirror_opts.dist_part())`
dist_url(root_url, suite) == root_url \o <<"/">> \o dist_part(suite)

\* Repository::release_urls: `format_compact!("{}/InRelease", self.dist_url)`, ...
release_urls(d_url) == [i \in 1..Len(ReleaseNames) |-> d_url \o <<"/", ReleaseNames[i]>>]

\* a name of a manifest path: what it starts with and what follows
PathName(stem, ext) == [stem |-> stem, ext |-> ext]

\* the names the manifest paths are made of
PathNames ==
    {PathName("Packages", ""), PathName("Packages", ".gz"), PathName("Packages", ".diff"),
     PathName("Sources", ".xz"), PathName("README", ""), PathName("main", ""),
     PathName("contrib", ""), PathName("binary-amd64", ""), PathName("source", "")}

\* the paths a manifest lists, of at most MaxDepth names
ManifestPaths == UNION {[1..n -> PathNames] : n \in 1..MaxDepth}

\* ReleaseFileFilter::new for arch = [amd64] without udeb and installer architectures
file_prefix_filter(o) ==
    {"Release"}
    \cup (IF o.source THEN {"Sources"} ELSE {})
    \cup (IF o.packages
          THEN {"Contents-all", "Components-all", "Commands-all", "Packages", "icons",
                "Translation", "Index", "Components-amd64", "Contents-amd64", "Commands-amd64"}
          ELSE {})

\* ReleaseFileFilter::new, the directories
dir_filter(o) ==
    (IF o.source THEN {PathName("source", "")} ELSE {})
    \cup (IF o.packages
          THEN {PathName("dep11", ""), PathName("i18n", ""), PathName("binary-all", ""),
                PathName("cnf", ""), PathName("Contents-all", ".diff"),
                PathName("Packages", ".diff"), PathName("binary-amd64", ""),
                PathName("Contents-amd64", ".diff")}
          ELSE {})

\* str::starts_with on the names above
starts_with(name, v) == name.stem = v

\* ReleaseFileFilter::accept
accept(o, path) ==
    LET component == path[1]
        n == Len(path)
    IN IF n = 1 /\ \E v \in file_prefix_filter(o) : starts_with(component, v)
       THEN TRUE
       ELSE IF ~\E k \in 1..Len(o.components) :
                   component = PathName(o.components[k], "")
       THEN FALSE
       ELSE /\ n >= 2
            /\ \A k \in 2..(n - 1) : path[k] \in dir_filter(o)
            /\ \E v \in file_prefix_filter(o) : starts_with(path[n], v)

InitFlat ==
    /\ \E u \in ArchiveUrls, su \in Suites, o \in ParsedOpts, pa \in ManifestPaths :
         /\ o.target = 1
         /\ DuplicateFree(o.components)
         /\ arg = [fn |-> "flat", url |-> u, suite |-> su, opts |-> o, path |-> pa]
    /\ ret = [done |-> FALSE]
    /\ VerifierAtRest
    /\ PipelineAtRest
    /\ MainAtRest
    /\ LockAtRest
    /\ PgpAtRest

\* Repository::build, then the release step asks for release_urls and Release::parse asks
\* the filter about a path of the manifest
BuildRepository ==
    /\ arg.fn = "flat"
    /\ ~ret.done
    /\ ret' = [done |-> TRUE,
               urls |-> release_urls(dist_url(arg.url, arg.suite)),
               accepted |-> accept(arg.opts, arg.path)]
    /\ UNCHANGED arg
    /\ UNCHANGED <<pipelineVars, mainVars, lockVars, pgpVars, verifierVars>>

NextFlat == BuildRepository

SpecFlat == InitFlat /\ [][NextFlat]_vars

\* --------------------------------------------------------- Verifier ----
\* the tasks that call Verifier::queue concurrently
Callers == 1..NumCallers

\* the first path of the VerifyTasks
VPaths == 1..NumVPaths

InitVerifier ==
    /\ verified_set = {}
    /\ vchannel = <<>>
    /\ vtotal = 0
    /\ caller = [c \in Callers |-> [pc |-> "idle", path |-> 0, calls |-> 0]]
    /\ sent = [p \in VPaths |-> 0]
    /\ hashed = [p \in VPaths |-> 0]
    /\ arg = [fn |-> "none"]
    /\ ret = [done |-> FALSE]
    /\ PipelineAtRest
    /\ MainAtRest
    /\ LockAtRest
    /\ PgpAtRest

verifierFrame == <<pipelineVars, mainVars, lockVars, pgpVars, fnVars>>

\* variant: the path is taken for new whether or not it is in the set
observed_never(set, path) == FALSE

\* Verifier::queue: `verified_set.contains(path)`
observed(set, path) == path \in set

\* Verifier::queue, the block under the mutex: a path already in the set makes queue return,
\* a new path is inserted
QueueLocked(c) ==
    /\ caller[c].pc = "idle"
    /\ caller[c].calls < MaxCalls
    /\ \E p \in VPaths :
         IF observed(verified_set, p)
         THEN /\ caller' = [caller EXCEPT ![c] = [pc |-> "idle", path |-> 0, calls |-> @.calls + 1]]
              /\ UNCHANGED verified_set
         ELSE /\ verified_set' = verified_set \cup {p}
              /\ caller' = [caller EXCEPT ![c] = [pc |-> "total", path |-> p, calls |-> @.calls + 1]]
    /\ UNCHANGED <<vchannel, vtotal, sent, hashed>>
    /\ UNCHANGED verifierFrame

\* Verifier::queue: `self.progress.files.inc_total(1)`
QueueIncTotal(c) ==
    /\ caller[c].pc = "total"
    /\ vtotal' = vtotal + 1
    /\ caller' = [caller EXCEPT ![c].pc = "send"]
    /\ UNCHANGED <<verified_set, vchannel, sent, hashed>>
    /\ UNCHANGED verifierFrame

\* Verifier::queue: `self.sender.send(verify_task).await?` waits while the channel is full
QueueSend(c) ==
    /\ caller[c].pc = "send"
    /\ Len(vchannel) < QueueCap
    /\ vchannel' = Append(vchannel, caller[c].path)
    /\ sent' = [sent EXCEPT ![caller[c].path] = @ + 1]
    /\ caller' = [caller EXCEPT ![c] = [@ EXCEPT !.pc = "idle", !.path = 0]]
    /\ UNCHANGED <<verified_set, vtotal, hashed>>
    /\ UNCHANGED verifierFrame

\* Verifier::build, worker loop: a task is received and verify_file hashes its path
VerifyFile ==
    /\ vchannel # <<>>
    /\ hashed' = [hashed EXCEPT ![Head(vchannel)] = @ + 1]
    /\ vchannel' = Tail(vchannel)
    /\ UNCHANGED <<verified_set, vtotal, caller, sent>>
    /\ UNCHANGED verifierFrame

NextVerifier ==
    \/ \E c \in Callers : QueueLocked(c)
    \/ \E c \in Callers : QueueIncTotal(c)
    \/ \E c \in Callers : QueueSend(c)
    \/ VerifyFile

SpecVerifier == InitVerifier /\ [][NextVerifier]_vars

\* ------------------------------------------------------------ prune ----
\* paths are sequences of segments, "/" being a segment of its own
prune_root_dir == <<"out", "/", "host">>

\* the root-relative path of the i-th file under root_dir
rel_path(i) == <<"dists", "/", ToString(i)>>

\* the path WalkDir yields for it, and the path the inventory builds for it:
\* `format_compact!("{}/dists/{}", repo.root_dir, opts.suite)`
rooted(i) == prune_root_dir \o <<"/">> \o rel_path(i)

\* str::strip_prefix
strip_prefix(str, prefix) ==
    IF Len(str) >= Len(prefix) /\ SubSeq(str, 1, Len(prefix)) = prefix
    THEN [some |-> TRUE, rest |-> SubSeq(str, Len(prefix) + 1, Len(str))]
    ELSE [some |-> FALSE, rest |-> str]

\* Repository::strip_root: the prefix root_dir goes, then one '/'
strip_root(path) ==
    LET stripped == strip_prefix(path, prune_root_dir)
    IN  IF ~stripped.some THEN path
        ELSE strip_prefix(stripped.rest, <<"/">>).rest

\* add_valid_metadata_file: the prefix root_dir goes, nothing else
add_valid_metadata_file(file) == strip_prefix(file, prune_root_dir).rest

\* Inventory::execute, index entries: `base_path.join(entry.path)` with base_path "" for
\* Packages and Sources
add_index_entry(i) == rel_path(i)

\* a directory entry of the walk: a regular file or a symlink with a relative or an absolute
\* target that exists or not, its length, how the inventory knows its path, and whether it
\* lies under an excluded path
DirEntries ==
    [kind : {"file"}, size : {0, 1}, target : {"none"},
     listed : {"no", "manifest", "index"}, excluded : BOOLEAN]
    \cup
    [kind : {"rel_link", "abs_link"}, size : {1}, target : {"exists", "missing"},
     listed : {"no", "manifest", "index"}, excluded : BOOLEAN]

Entries == 1..NumEntries

\* Inventory::execute: the set of valid files of a tree
inventory(tree) ==
    {add_valid_metadata_file(rooted(i)) : i \in {j \in Entries : tree[j].listed = "manifest"}}
    \cup {add_index_entry(i) : i \in {j \in Entries : tree[j].listed = "index"}}

\* the semantic inventory: the root-relative paths the manifest lists or an index references
Inventoried(tree) == {rel_path(i) : i \in {j \in Entries : tree[j].listed # "no"}}

\* a symlink whose target does not exist
Dangling(e) == e.kind # "file" /\ e.target = "missing"

\* should_delete
should_delete(valid_files, entry, path) ==
    IF entry.kind = "abs_link" /\ entry.target = "exists" THEN TRUE
    ELSE IF entry.kind = "rel_link" /\ entry.target = "missing" THEN TRUE
    ELSE IF entry.size = 0 THEN TRUE
    ELSE path \notin valid_files

InitPrune ==
    /\ \E tree \in [Entries -> DirEntries], dry_run \in BOOLEAN :
         arg = [fn |-> "prune", tree |-> tree, dry_run |-> dry_run]
    /\ ret = [done |-> FALSE, pc |-> "inventory", files |-> {}, pos |-> 0, present |-> Entries]
    /\ VerifierAtRest
    /\ PipelineAtRest
    /\ MainAtRest
    /\ LockAtRest
    /\ PgpAtRest

fnFrame == <<pipelineVars, mainVars, lockVars, pgpVars, verifierVars, arg>>

\* Inventory::execute
PruneInventory ==
    /\ arg.fn = "prune"
    /\ ret.pc = "inventory"
    /\ ret' = [ret EXCEPT !.files = inventory(arg.tree), !.pc = "delete"]
    /\ UNCHANGED fnFrame

\* Delete::execute, one turn of the loop over the walk: excluded entries are filtered out,
\* an entry that should be deleted is printed in a dry run and removed otherwise
PruneVisit ==
    /\ arg.fn = "prune"
    /\ ret.pc = "delete"
    /\ ret.pos < NumEntries
    /\ LET i == ret.pos + 1
           entry == arg.tree[i]
           path == strip_root(rooted(i))
       IN  ret' = [ret EXCEPT
                     !.pos = i,
                     !.present = IF /\ ~entry.excluded
                                    /\ should_delete(ret.files, entry, path)
                                    /\ ~arg.dry_run
                                 THEN @ \ {i} ELSE @]
    /\ UNCHANGED fnFrame

\* Delete::execute returns StepResult::Continue after the walk
PruneDone ==
    /\ arg.fn = "prune"
    /\ ret.pc = "delete"
    /\ ret.pos = NumEntries
    /\ ret' = [ret EXCEPT !.done = TRUE, !.pc = "done"]
    /\ UNCHANGED fnFrame

NextPrune ==
    \/ PruneInventory
    \/ PruneVisit
    \/ PruneDone

SpecPrune == InitPrune /\ [][NextPrune]_vars

\* ---------------------------------------------------- download_file ----
\* the two download_file functions of the source tree
DownloaderModules == {"downloader", "mirror/downloader"}

\* what the server answers to the GET: the body the request expects, 404, or another body
Responses == {"body", "not_found", "mismatch"}

DownloadRequests ==
    {create_metadata_download("Packages", h, by_hash) : h \in 1..MaxVer, by_hash \in BOOLEAN}
    \cup {create_file_download("deb", 1), create_raw_download("img", 1)}

\* the directory before the call: empty, or with a destination that is complete, empty
\* (length 0) or of another content, with or without the symlinks of the request
FileSystemsFor(dl) ==
    LET primaries == {EmptyFs} \cup {[EmptyFs EXCEPT ![dl.path] = RegFile(c, FALSE)] : c \in {0, dl.cks, BadContent}}
    IN  primaries \cup {with_symlinks(fs, dl.links, dl.path) : fs \in primaries}

InitDownload ==
    /\ \E dl \in DownloadRequests, module \in DownloaderModules, response \in Responses :
         \E fs \in FileSystemsFor(dl) :
            /\ arg = [fn |-> "download_file", module |-> module, dl |-> dl, fs |-> fs,
                      response |-> response]
            /\ ret = [done |-> FALSE, sent |-> FALSE, fs |-> fs, result |-> "none"]
    /\ VerifierAtRest
    /\ PipelineAtRest
    /\ MainAtRest
    /\ LockAtRest
    /\ PgpAtRest

\* download_file up to the GET: File::create when the file needs downloading, else only
\* the symlink loop and Ok(false)
DownloadOpen ==
    /\ arg.fn = "download_file"
    /\ ~ret.done /\ ~ret.sent
    /\ ret' = IF needs_downloading(ret.fs, arg.dl)
              THEN [ret EXCEPT !.sent = TRUE, !.fs = [ret.fs EXCEPT ![arg.dl.path] = RegFile(0, FALSE)]]
              ELSE [ret EXCEPT !.done = TRUE, !.result = "Ok(false)",
                               !.fs = with_symlinks(ret.fs, arg.dl.links, arg.dl.path)]
    /\ UNCHANGED fnFrame

\* download_file, `response.status() == StatusCode::NOT_FOUND`: downloader.rs removes the
\* destination before it returns Err(Download), mirror/downloader.rs returns at once
DownloadNotFound ==
    /\ arg.fn = "download_file"
    /\ ~ret.done /\ ret.sent
    /\ arg.response = "not_found"
    /\ ret' = [ret EXCEPT !.done = TRUE, !.result = "Download",
                          !.fs = IF arg.module = "downloader"
                                 THEN [ret.fs EXCEPT ![arg.dl.path] = NoFile]
                                 ELSE ret.fs]
    /\ UNCHANGED fnFrame

\* download_file: the body is written and hashed; a digest other than the expected one
\* removes the destination and returns Err(Checksum), else the symlink loop runs
DownloadBody ==
    /\ arg.fn = "download_file"
    /\ ~ret.done /\ ret.sent
    /\ arg.response # "not_found"
    /\ LET served == IF arg.response = "body" THEN arg.dl.cks ELSE BadContent
       IN  ret' = IF checksum_matches(arg.dl.cks, served)
                  THEN [ret EXCEPT !.done = TRUE, !.result = "Ok(true)",
                                   !.fs = with_symlinks(
                                            [ret.fs EXCEPT ![arg.dl.path] = RegFile(served, TRUE)],
                                            arg.dl.links, arg.dl.path)]
                  ELSE [ret EXCEPT !.done = TRUE, !.result = "Checksum",
                                   !.fs = [ret.fs EXCEPT ![arg.dl.path] = NoFile]]
    /\ UNCHANGED fnFrame

NextDownload ==
    \/ DownloadOpen
    \/ DownloadNotFound
    \/ DownloadBody

SpecDownload == InitDownload /\ [][NextDownload]_vars

\* ------------------------------------------------ FileEntry paths ----
\* the hash sections of a manifest, in the order FileEntryChecksumIterator goes through
\* the fields sha512, sha256, sha1, md5, with the directory Checksum::relative_path names
HashDirs == <<"SHA512", "SHA256", "SHA1", "MD5Sum">>

\* the digests of the model, as hex strings; "" is a field that is None
HexValues == {"a", "b"}
NoHash == ""

\* FileEntry: one optional digest per field
FileEntries == [1..Len(HashDirs) -> HexValues \cup {NoHash}]

\* Checksum::relative_path
relative_path(checksum) == <<"by-hash", "/", HashDirs[checksum.algo], "/", checksum.hex>>

\* variant: the weakest present hash is taken
strongest_hash_weakest(entry) ==
    IF entry[4] # NoHash THEN [some |-> TRUE, algo |-> 4, hex |-> entry[4]]
    ELSE IF entry[3] # NoHash THEN [some |-> TRUE, algo |-> 3, hex |-> entry[3]]
    ELSE IF entry[2] # NoHash THEN [some |-> TRUE, algo |-> 2, hex |-> entry[2]]
    ELSE IF entry[1] # NoHash THEN [some |-> TRUE, algo |-> 1, hex |-> entry[1]]
    ELSE [some |-> FALSE, algo |-> 0, hex |-> NoHash]

\* FileEntry::strongest_hash
strongest_hash(entry) ==
    IF entry[1] # NoHash THEN [some |-> TRUE, algo |-> 1, hex |-> entry[1]]
    ELSE IF entry[2] # NoHash THEN [some |-> TRUE, algo |-> 2, hex |-> entry[2]]
    ELSE IF entry[3] # NoHash THEN [some |-> TRUE, algo |-> 3, hex |-> entry[3]]
    ELSE IF entry[4] # NoHash THEN [some |-> TRUE, algo |-> 4, hex |-> entry[4]]
    ELSE [some |-> FALSE, algo |-> 0, hex |-> NoHash]

\* FileEntryChecksumIterator::next, called until it returns None: the checksums it
\* yields from position pos on (pos counts from 1 here)
RECURSIVE checksum_iter(_, _)
checksum_iter(entry, pos) ==
    IF pos > Len(HashDirs) THEN <<>>
    ELSE IF entry[pos] = NoHash THEN checksum_iter(entry, pos + 1)
    ELSE <<[some |-> TRUE, algo |-> pos, hex |-> entry[pos]]>> \o checksum_iter(entry, pos + 1)

\* FilePath::parent: `rsplit_once('/')`
RECURSIVE parent(_)
parent(path) ==
    IF path = <<>> THEN <<>>
    ELSE IF path[Len(path)] = "/" THEN SubSeq(path, 1, Len(path) - 1)
    ELSE parent(SubSeq(path, 1, Len(path) - 1))

\* FilePath::join
join(first, other) == IF first = <<>> THEN other ELSE first \o <<"/">> \o other

\* FileEntry::into_paths
into_paths(entry, file_path, by_hash) ==
    LET strongest_checksum == strongest_hash(entry)
        iter == checksum_iter(entry, 1)
        by_hash_base == parent(file_path)
    IN  IF by_hash
        THEN IF iter = <<>>
             THEN [ok |-> FALSE, checksum |-> strongest_checksum, primary |-> <<>>, symlinks |-> <<>>]
             ELSE [ok |-> TRUE, checksum |-> strongest_checksum,
                   primary |-> join(by_hash_base, relative_path(iter[1])),
                   symlinks |-> <<file_path>> \o
                                [i \in 1..(Len(iter) - 1) |-> join(by_hash_base, relative_path(iter[i + 1]))]]
        ELSE [ok |-> TRUE, checksum |-> strongest_checksum, primary |-> file_path, symlinks |-> <<>>]

\* the values of the manifest's Acquire-By-Hash field ("" when the field is missing)
AcquireByHashValues == {"yes", "no", ""}

\* Release::acquire_by_hash
acquire_by_hash(field) == field = "yes"

\* the kinds of MetadataFile and the paths to_path_in_tmp gives their entries
MetadataKinds == {"Packages", "DiffIndex", "SumFile", "Other"}
MetadataPaths == {<<"tmp", "/", "Release">>, <<"tmp", "/", "main", "/", "Packages">>}

\* DownloadMetadata::execute: `let mut add_by_hash = by_hash` and the sum file case
add_by_hash(field, kind) == IF kind = "SumFile" THEN FALSE ELSE acquire_by_hash(field)

InitPaths ==
    /\ \E entry \in FileEntries, file_path \in MetadataPaths, kind \in MetadataKinds,
          field \in AcquireByHashValues :
         arg = [fn |-> "into_paths", entry |-> entry, file_path |-> file_path, kind |-> kind,
                field |-> field]
    /\ ret = [done |-> FALSE]
    /\ VerifierAtRest
    /\ PipelineAtRest
    /\ MainAtRest
    /\ LockAtRest
    /\ PgpAtRest

\* DownloadMetadata::execute calls Repository::create_metadata_download for the entry
CreateMetadataDownload ==
    /\ arg.fn = "into_paths"
    /\ ~ret.done
    /\ LET by_hash == add_by_hash(arg.field, arg.kind)
           paths == into_paths(arg.entry, arg.file_path, by_hash)
       IN  ret' = [done |-> TRUE, by_hash |-> by_hash, ok |-> paths.ok,
                   checksum |-> paths.checksum, primary_target_path |-> paths.primary,
                   symlink_paths |-> paths.symlinks]
    /\ UNCHANGED fnFrame

NextPaths == CreateMetadataDownload

SpecPaths == InitPaths /\ [][NextPaths]_vars

\* ------------------------------------------------ installer images ----
\* the paths a sum file lists, and the digests it gives them
ImagePaths == {"img" \o ToString(i) : i \in 1..NumImages}
ImageSums == 1..2

\* SumFileEntry as the reader yields it
SumFileEntries == [path : ImagePaths, checksum : ImageSums]

\* the sum files: every order of entries in which each path is listed once
SumFiles ==
    {f \in UNION {[1..n -> SumFileEntries] : n \in 0..NumImages} :
        \A i, j \in 1..Len(f) : f[i].path = f[j].path => i = j}

\* `.map(|v| (v.path.clone(), v)).collect::<HashMap<..>>()`, or HashMap::new() when no sum
\* file is committed
collect(old) == {old.entries[i] : i \in 1..Len(old.entries)}

\* `old_map.remove(&file.path)`
remove(old_map, path) == {e \in old_map : e.path # path}

\* variant: a committed entry of the same path is a match whatever its checksum
unchanged_entry_by_path(old_map, file) == \E e \in old_map : e.path = file.path

\* the entry removed from old_map has the checksum of the new entry
unchanged_entry(old_map, file) ==
    \E e \in old_map : e.path = file.path /\ e.checksum = file.checksum

InitInstaller ==
    /\ \E new \in SumFiles, old \in [exists : {TRUE}, entries : SumFiles]
                                   \cup {[exists |-> FALSE, entries |-> <<>>]} :
         /\ arg = [fn |-> "debian_installer", new |-> new, old |-> old]
         /\ ret = [done |-> FALSE, pos |-> 0, old_map |-> collect(old), queued |-> <<>>,
                   files_to_delete |-> {}]
    /\ VerifierAtRest
    /\ PipelineAtRest
    /\ MainAtRest
    /\ LockAtRest
    /\ PgpAtRest

\* DownloadDebianInstaller::execute, one turn of `for file in sum_file`
InstallerEntry ==
    /\ arg.fn = "debian_installer"
    /\ ~ret.done
    /\ ret.pos < Len(arg.new)
    /\ LET file == arg.new[ret.pos + 1]
       IN  ret' = [ret EXCEPT
                     !.pos = @ + 1,
                     !.old_map = remove(@, file.path),
                     !.queued = IF unchanged_entry(ret.old_map, file) THEN @
                                ELSE Append(@, create_raw_download(file.path, file.checksum))]
    /\ UNCHANGED fnFrame

\* DownloadDebianInstaller::execute after the loop: what is left of old_map is to delete
InstallerDone ==
    /\ arg.fn = "debian_installer"
    /\ ~ret.done
    /\ ret.pos = Len(arg.new)
    /\ ret' = [ret EXCEPT !.done = TRUE, !.files_to_delete = {e.path : e \in ret.old_map}]
    /\ UNCHANGED fnFrame

NextInstaller ==
    \/ InstallerEntry
    \/ InstallerDone

SpecInstaller == InitInstaller /\ [][NextInstaller]_vars

\* ---------------------------------------------------- Release::parse ----
\* Line::from: the kinds of line of a manifest
SectionStarts == {"Md5Start", "Sha1Start", "Sha256Start", "Sha512Start"}
PgpLines == {"PGPSignedMessageStart", "PGPSignatureStart", "PGPSignatureEnd"}

\* the paths the filter accepts and the values of the one header field of the model
ListedPaths == {"a", "b"}
HeaderValues == {"x", "y"}
NoId == ""

\* the lines of a manifest: an indented line has its three fields, or fewer, or a size that
\* is no number, and a path the filter accepts (id) or not; a line with ':' has ": " and a
\* value (id) or not
ManifestLines ==
    [kind : {"FileEntry"}, form : {"ok"}, accepted : {TRUE}, id : ListedPaths]
    \cup [kind : {"FileEntry"}, form : {"ok", "short", "bad_size"}, accepted : {FALSE}, id : {NoId}]
    \cup [kind : {"Metadata"}, form : {"ok"}, accepted : {FALSE}, id : HeaderValues]
    \cup [kind : {"Metadata"}, form : {"no_space"}, accepted : {FALSE}, id : {NoId}]
    \cup [kind : SectionStarts \cup PgpLines \cup {"Unknown"}, form : {"ok"}, accepted : {FALSE},
          id : {NoId}]

Manifests == UNION {[1..n -> ManifestLines] : n \in 0..MaxManifest}

\* FileLine::parse: fewer than three fields is ParsingRelease, `size.parse()?` is ParseInt
file_line_parse(line) ==
    IF line.form = "short" THEN "ParsingRelease"
    ELSE IF line.form = "bad_size" THEN "ParseInt"
    ELSE "Ok"

\* the state a section start or a PGP line puts the parser in
state_after(kind) ==
    CASE kind = "Md5Start" -> "Md5"
      [] kind = "Sha1Start" -> "Sha1"
      [] kind = "Sha256Start" -> "Sha256"
      [] kind = "Sha512Start" -> "Sha512"
      [] kind = "PGPSignedMessageStart" -> "PgpMessage"
      [] kind = "PGPSignatureStart" -> "PgpSignature"
      [] kind = "PGPSignatureEnd" -> "No"

HashStates == {"Sha1", "Sha256", "Sha512", "Md5"}

\* FileEntry { size, md5: None, sha1: None, sha256: None, sha512: None }, and no entry
NewFileEntry == [present |-> TRUE, hashes |-> {}]
NoFileEntry == [present |-> FALSE, hashes |-> {}]

\* the parser before the first line: state No, empty map, empty file table
ParserStart ==
    [checksum_state |-> "No", result |-> "none", map |-> NoId,
     files |-> [f \in ListedPaths |-> NoFileEntry]]

\* Release::parse: `if !files.contains_key(..) { files.insert(.., FileEntry {..}) }`
insert_if_absent(table, path) ==
    IF table[path].present THEN table ELSE [table EXCEPT ![path] = NewFileEntry]

\* Release::parse, the body of the loop for one line, on the parser p (checksum state,
\* result, header map, file table); the result is "none" while the loop goes on
parse_line(p, line) ==
    CASE line.kind = "FileEntry" ->
           IF file_line_parse(line) # "Ok"
           THEN [p EXCEPT !.result = file_line_parse(line)]
           ELSE IF ~line.accepted
           THEN p
           ELSE LET table == insert_if_absent(p.files, line.id)
                IN  IF p.checksum_state \in HashStates
                    THEN [p EXCEPT !.files = [table EXCEPT ![line.id] =
                                                [present |-> TRUE,
                                                 hashes |-> table[line.id].hashes \cup {p.checksum_state}]]]
                    ELSE IF p.checksum_state = "No"
                    THEN [p EXCEPT !.files = table, !.result = "ParsingRelease"]
                    ELSE [p EXCEPT !.files = table]
      [] line.kind = "Metadata" ->
           IF p.checksum_state \in {"PgpMessage", "PgpSignature"}
           THEN p
           ELSE IF line.form = "no_space"
           THEN [p EXCEPT !.checksum_state = "No", !.result = "ParsingRelease"]
           ELSE [p EXCEPT !.checksum_state = "No", !.map = line.id]
      [] line.kind = "Unknown" ->
           [p EXCEPT !.checksum_state = IF @ = "PgpSignature" THEN @ ELSE "No"]
      [] OTHER ->
           [p EXCEPT !.checksum_state = state_after(line.kind)]

InitParse ==
    /\ \E lines \in Manifests : arg = [fn |-> "parse", lines |-> lines]
    /\ ret = [done |-> FALSE, pos |-> 0, checksum_state |-> "No", result |-> "none",
              map |-> NoId, files |-> ParserStart.files]
    /\ VerifierAtRest
    /\ PipelineAtRest
    /\ MainAtRest
    /\ LockAtRest
    /\ PgpAtRest

\* Release::parse: read_line returned a line and the loop body ran
ParseLine ==
    /\ arg.fn = "parse"
    /\ ~ret.done
    /\ ret.pos < Len(arg.lines)
    /\ LET out == parse_line([checksum_state |-> ret.checksum_state, result |-> "none",
                              map |-> ret.map, files |-> ret.files],
                             arg.lines[ret.pos + 1])
       IN  ret' = [done |-> out.result # "none", pos |-> ret.pos + 1,
                   checksum_state |-> out.checksum_state, result |-> out.result,
                   map |-> out.map, files |-> out.files]
    /\ UNCHANGED fnFrame

\* Release::parse: read_line returned Ok(0), the Release is returned
ParseEnd ==
    /\ arg.fn = "parse"
    /\ ~ret.done
    /\ ret.pos = Len(arg.lines)
    /\ ret' = [ret EXCEPT !.done = TRUE, !.result = "Ok"]
    /\ UNCHANGED fnFrame

NextParse ==
    \/ ParseLine
    \/ ParseEnd

SpecParse == InitParse /\ [][NextParse]_vars

\* ------------------------------------------------------ PackagesFile ----
\* the lines of a Packages index by their prefix; Blank is the line "\n"; the path of a
\* Filename line is its position in the file, so no two paragraphs name the same path
ChecksumTypes == {"MD5Sum", "SHA1", "SHA256", "SHA512"}
PackagesLines == {"Filename", "Size", "Other", "Blank"} \cup ChecksumTypes
PackagesIndexes == UNION {[1..n -> PackagesLines] : n \in 0..MaxPkgLines}

NoFilename == 0

\* Checksum::bits, in bytes
bits(type) ==
    CASE type = "MD5Sum" -> 16
      [] type = "SHA1" -> 20
      [] type = "SHA256" -> 32
      [] type = "SHA512" -> 64
      [] OTHER -> 0

\* ChecksumType::is_stronger: matches!((first, second), (_, Sha512) | (_, Sha256) |
\* (_, Sha1) | (_, Md5))
is_stronger(first, second) == second \in {"SHA512", "SHA256", "SHA1", "MD5Sum"}

\* PackagesFile::next, the read loop from position pos: Ok(0) is the end of the file, a
\* line of length 1 ends the loop
RECURSIVE read_paragraph(_, _)
read_paragraph(lines, pos) ==
    IF pos = Len(lines) THEN [pos |-> pos, eof |-> TRUE]
    ELSE IF lines[pos + 1] = "Blank" THEN [pos |-> pos + 1, eof |-> FALSE]
    ELSE read_paragraph(lines, pos + 1)

\* PackagesFile::next, `for line in self.buf.lines()` over the lines from..to of the file
RECURSIVE parse_fields(_, _, _, _)
parse_fields(lines, from, to, acc) ==
    IF from > to THEN acc
    ELSE LET line == lines[from]
             next == CASE line = "Filename" -> [acc EXCEPT !.path = from]
                       [] line = "Size" -> [acc EXCEPT !.size = TRUE]
                       [] line \in ChecksumTypes ->
                            IF is_stronger(acc.hash, line) THEN [acc EXCEPT !.hash = line]
                            ELSE acc
                       [] OTHER -> acc
         IN  parse_fields(lines, from + 1, to, next)

NoFields == [path |-> NoFilename, size |-> FALSE, hash |-> NoHash]

\* the fields found by one call of next that began with the buffer starting at line from
next_fields(lines, from, pos) ==
    parse_fields(lines, from, read_paragraph(lines, pos).pos, NoFields)

InitPackages ==
    /\ \E lines \in PackagesIndexes : arg = [fn |-> "packages", lines |-> lines]
    /\ ret = [done |-> FALSE, pos |-> 0, buf |-> 1, entries |-> <<>>]
    /\ VerifierAtRest
    /\ PipelineAtRest
    /\ MainAtRest
    /\ LockAtRest
    /\ PgpAtRest

\* PackagesFile::next returns Some(Ok(entry)); buf is cleared
PackagesNextEntry ==
    /\ arg.fn = "packages"
    /\ ~ret.done
    /\ LET read == read_paragraph(arg.lines, ret.pos)
           found == next_fields(arg.lines, ret.buf, ret.pos)
       IN  /\ ~read.eof
           /\ found.path # NoFilename /\ found.size
           /\ ret' = [done |-> FALSE, pos |-> read.pos, buf |-> read.pos + 1,
                      entries |-> Append(ret.entries, [path |-> found.path,
                                                       checksum |-> found.hash])]
    /\ UNCHANGED fnFrame

\* PackagesFile::next returns None after a blank line: path or size is None; the `for`
\* loop over the iterator ends
PackagesNextNone ==
    /\ arg.fn = "packages"
    /\ ~ret.done
    /\ LET read == read_paragraph(arg.lines, ret.pos)
           found == next_fields(arg.lines, ret.buf, ret.pos)
       IN  /\ ~read.eof
           /\ ~(found.path # NoFilename /\ found.size)
           /\ ret' = [ret EXCEPT !.done = TRUE, !.pos = read.pos, !.buf = read.pos + 1]
    /\ UNCHANGED fnFrame

\* PackagesFile::next returns None at Ok(0), whatever buf holds
PackagesNextEof ==
    /\ arg.fn = "packages"
    /\ ~ret.done
    /\ LET read == read_paragraph(arg.lines, ret.pos)
       IN  /\ read.eof
           /\ ret' = [ret EXCEPT !.done = TRUE, !.pos = read.pos]
    /\ UNCHANGED fnFrame

NextPackages ==
    \/ PackagesNextEntry
    \/ PackagesNextNone
    \/ PackagesNextEof

SpecPackages == InitPackages /\ [][NextPackages]_vars

\* ----------------------------------------------- redundancy collapse ----
\* index files of the release: Packages and Sources in two directories, uncompressed
\* (extension None) or with an extension
NoExtension == ""
IndexFiles == [dir : {"d1", "d2"}, stem : {"Packages", "Sources"},
               ext : {NoExtension, "gz", "xz", "bz2"}]

\* the lists of up to MaxIndices index files, each path once (the file table of a release
\* is keyed by path)
IndexLists ==
    UNION {{l \in [1..n -> IndexFiles] : \A i, j \in 1..n : l[i] = l[j] => i = j} :
             n \in 0..MaxIndices}

\* MetadataFile::canonical_path of a Packages or Sources file: "{parent}/{stem}"
canonical_path(file) == <<file.dir, file.stem>>

\* is_extension_preferred: matches!((old, new), (_, Some("gz")) | (_, Some("xz")) |
\* (_, Some("bz2")))
is_extension_preferred(old, new) == new \in {"gz", "xz", "bz2"}

\* the map with key k set to file v
MapInsert(map, k, v) == [x \in DOMAIN map \cup {k} |-> IF x = k THEN v ELSE map[x]]

\* deduplicate_metadata: the loop over the files in their order
RECURSIVE deduplicate_metadata(_, _)
deduplicate_metadata(list, map) ==
    IF list = <<>> THEN map
    ELSE LET file == Head(list)
             canonical == canonical_path(file)
         IN  deduplicate_metadata(Tail(list),
                IF canonical \in DOMAIN map
                THEN IF is_extension_preferred(map[canonical].ext, file.ext)
                     THEN MapInsert(map, canonical, file)
                     ELSE map
                ELSE MapInsert(map, canonical, file))

\* mirror/packages.rs: `while let Some(index_file_path) = state.package_indices.pop()`
RECURSIVE existing_indices(_, _)
existing_indices(list, map) ==
    IF list = <<>> THEN map
    ELSE LET index_file_path == list[Len(list)]
             path_with_stem == canonical_path(index_file_path)
         IN  existing_indices(SubSeq(list, 1, Len(list) - 1),
                IF path_with_stem \in DOMAIN map
                THEN IF is_extension_preferred(map[path_with_stem].ext, index_file_path.ext)
                     THEN MapInsert(map, path_with_stem, index_file_path)
                     ELSE map
                ELSE MapInsert(map, path_with_stem, index_file_path))

\* into_filtered_by_extension: `let file_path = val.as_ref()` shadows the popped path, so
\* both arguments of is_extension_preferred are the extension of the file held in the map
RECURSIVE into_filtered_by_extension(_, _)
into_filtered_by_extension(list, map) ==
    IF list = <<>> THEN map
    ELSE LET index_file_path == list[Len(list)]
             path_with_stem == canonical_path(index_file_path)
         IN  into_filtered_by_extension(SubSeq(list, 1, Len(list) - 1),
                IF path_with_stem \in DOMAIN map
                THEN IF is_extension_preferred(map[path_with_stem].ext, map[path_with_stem].ext)
                     THEN MapInsert(map, path_with_stem, index_file_path)
                     ELSE map
                ELSE MapInsert(map, path_with_stem, index_file_path))

EmptyMap == [x \in {} |-> NoExtension]

\* `into_values().collect()`
into_values(map) == {map[k] : k \in DOMAIN map}

InitCollapse ==
    /\ \E list \in IndexLists, f \in {"deduplicate", "packages", "filtered"} :
          arg = [fn |-> f, list |-> list]
    /\ ret = [done |-> FALSE, kept |-> {}]
    /\ VerifierAtRest
    /\ PipelineAtRest
    /\ MainAtRest
    /\ LockAtRest
    /\ PgpAtRest

\* deduplicate_metadata on the metadata of a release
Deduplicate ==
    /\ arg.fn = "deduplicate"
    /\ ~ret.done
    /\ ret' = [done |-> TRUE, kept |-> into_values(deduplicate_metadata(arg.list, EmptyMap))]
    /\ UNCHANGED fnFrame

\* the packages step collapsing state.package_indices
CollapsePackageIndices ==
    /\ arg.fn = "packages"
    /\ ~ret.done
    /\ ret' = [done |-> TRUE, kept |-> into_values(existing_indices(arg.list, EmptyMap))]
    /\ UNCHANGED fnFrame

\* into_filtered_by_extension on a list of index files
FilterByExtension ==
    /\ arg.fn = "filtered"
    /\ ~ret.done
    /\ ret' = [done |-> TRUE,
               kept |-> into_values(into_filtered_by_extension(arg.list, EmptyMap))]
    /\ UNCHANGED fnFrame

NextCollapse ==
    \/ Deduplicate
    \/ CollapsePackageIndices
    \/ FilterByExtension

SpecCollapse == InitCollapse /\ [][NextCollapse]_vars

\* --------------------------------------------------------- Cmd::execute ----
\* Cmd::execute for Cmd::Mirror: one Downloader, built once, serves the runs of all
\* targets; every request is one byte long. ret holds the driver (target, cpc, step,
\* left), the channel and the download tasks, the Progress of the downloader (files,
\* bytes), MirrorState::total_bytes_downloaded, the results logged so far, and as history
\* the bytes received for the requests of each target.
CmdTargets == 1..NumTargets
CmdIdle == [busy |-> FALSE, of |-> 0, got |-> 0]

\* the last step is the debian-installer step, in one of its two versions
InstallerSteps == {"mirror/step/debian_installer.rs", "mirror/debian_installer.rs"}

\* mirror/step/debian_installer.rs adds ctx.progress.bytes.success() to
\* total_bytes_downloaded after its loop and BEFORE wait_for_completion;
\* mirror/debian_installer.rs and the other steps add it after the wait
adds_before_wait(installer, n) ==
    installer = "mirror/step/debian_installer.rs" /\ n = CmdSteps

\* the step has enqueued its last entry (cpc becomes "wait")
loop_left(r) ==
    IF adds_before_wait(arg.installer, r.step)
    THEN [r EXCEPT !.cpc = "wait", !.total_bytes_downloaded = @ + r.bytes.success]
    ELSE [r EXCEPT !.cpc = "wait"]

InitCmd ==
    /\ \E i \in InstallerSteps : arg = [fn |-> "cmd", installer |-> i]
    /\ ret = [target |-> 1, cpc |-> "run", step |-> 0, left |-> 0,
              channel |-> <<>>, task |-> [w \in Workers |-> CmdIdle],
              files |-> ZeroPart, bytes |-> ZeroPart,
              total_bytes_downloaded |-> 0, results |-> <<>>,
              received |-> [t \in CmdTargets |-> 0], errs |-> 0, faults |-> 0]
    /\ VerifierAtRest
    /\ PipelineAtRest
    /\ MainAtRest
    /\ LockAtRest
    /\ PgpAtRest

\* the `for (ctx, steps) in ctxs` loop goes to the next target, or execute returns
NextTarget(r, res) ==
    [r EXCEPT !.results = Append(@, res),
              !.target = @ + 1,
              !.left = 0,
              !.cpc = IF r.target = NumTargets THEN "exit" ELSE "run"]

\* Cmd::run: ctx.progress.reset() and set_total_steps, on the MirrorState of the target
CmdRun ==
    /\ arg.fn = "cmd"
    /\ ret.cpc = "run"
    /\ ret' = [ret EXCEPT !.files = ZeroPart, !.bytes = ZeroPart, !.step = 0,
                          !.total_bytes_downloaded = 0, !.cpc = "step"]
    /\ UNCHANGED fnFrame

\* Cmd::run: ctx.next_step (Progress::next_step resets files and bytes), then the step
\* begins with some number of entries to enqueue
CmdNextStep ==
    /\ arg.fn = "cmd"
    /\ ret.cpc = "step"
    /\ ret.step < CmdSteps
    /\ \E n \in 0..NumEntries :
          LET r == [ret EXCEPT !.files = ZeroPart, !.bytes = ZeroPart, !.step = @ + 1,
                               !.left = n, !.cpc = "queue"]
          IN  ret' = IF n = 0 THEN loop_left(r) ELSE r
    /\ UNCHANGED fnFrame

\* Downloader::queue from the loop of a step: bytes.inc_total(size), files.inc_total(1),
\* send; after the last entry the step calls wait_for_completion
CmdQueue ==
    /\ arg.fn = "cmd"
    /\ ret.cpc = "queue"
    /\ Len(ret.channel) < QueueCap
    /\ LET r == [ret EXCEPT !.bytes.total = @ + 1, !.files.total = @ + 1,
                             !.channel = Append(@, ret.target),
                             !.left = @ - 1]
       IN  ret' = IF r.left = 0 THEN loop_left(r) ELSE r
    /\ UNCHANGED fnFrame

\* the loop of a step is left with `?` on a malformed entry; Cmd::run takes the Err arm:
\* finalize_with_result(step.error(e))
CmdStepErr ==
    /\ arg.fn = "cmd"
    /\ ret.cpc = "queue"
    /\ ret.errs < MaxFaults
    /\ ret' = [NextTarget(ret, [kind |-> "Err", total |-> 0, received |-> 0])
                 EXCEPT !.errs = @ + 1]
    /\ UNCHANGED fnFrame

\* Progress::wait_for_completion returns (files.remaining() is 0); the step adds
\* ctx.progress.bytes.success() to total_bytes_downloaded, unless it did so before the
\* wait, and returns Continue
CmdWaitReturn ==
    /\ arg.fn = "cmd"
    /\ ret.cpc = "wait"
    /\ remaining(ret.files) = 0
    /\ ret' = [ret EXCEPT !.total_bytes_downloaded =
                              IF adds_before_wait(arg.installer, ret.step) THEN @
                              ELSE @ + ret.bytes.success,
                          !.cpc = "step"]
    /\ UNCHANGED fnFrame

\* the same, and the first step returns StepResult::End(result): finalize_with_result
CmdStepEnd ==
    /\ arg.fn = "cmd"
    /\ ret.cpc = "wait"
    /\ ret.step = 1
    /\ remaining(ret.files) = 0
    /\ ret' = NextTarget(ret, [kind |-> "End", total |-> 0, received |-> 0])
    /\ UNCHANGED fnFrame

\* ProgressPart::remaining: total - success - skipped on u64 with success + skipped above
\* total. A build with overflow checks panics here; a build without them wraps to a
\* large value and the loop of wait_for_completion goes on sleeping (no step)
CmdWaitPanic ==
    /\ arg.fn = "cmd"
    /\ ret.cpc = "wait"
    /\ remaining(ret.files) < 0
    /\ ret' = [ret EXCEPT !.cpc = "panic"]
    /\ UNCHANGED fnFrame

\* Cmd::run after the last step: finalize(), the result is NewRelease with the total
CmdFinalize ==
    /\ arg.fn = "cmd"
    /\ ret.cpc = "step"
    /\ ret.step = CmdSteps
    /\ ret' = NextTarget(ret, [kind |-> "NewRelease", total |-> ret.total_bytes_downloaded,
                               received |-> ret.received[ret.target]])
    /\ UNCHANGED fnFrame

\* download task: recv() returns a request and download_file sends the GET
CmdRecv(w) ==
    /\ arg.fn = "cmd"
    /\ ~ret.task[w].busy
    /\ ret.channel # <<>>
    /\ ret' = [ret EXCEPT !.channel = Tail(@),
                          !.task[w] = [busy |-> TRUE, of |-> Head(ret.channel), got |-> 0]]
    /\ UNCHANGED fnFrame

\* download task: needs_downloading is false, download_file returns Ok(false):
\* files.inc_skipped(1)
CmdSkip(w) ==
    /\ arg.fn = "cmd"
    /\ ~ret.task[w].busy
    /\ ret.channel # <<>>
    /\ ret' = [ret EXCEPT !.channel = Tail(@), !.files.skipped = @ + 1]
    /\ UNCHANGED fnFrame

\* download_file: a chunk arrived, the callback runs bytes.inc_success(downloaded)
CmdChunk(w) ==
    /\ arg.fn = "cmd"
    /\ ret.task[w].busy
    /\ ret.task[w].got = 0
    /\ ret' = [ret EXCEPT !.task[w].got = 1, !.bytes.success = @ + 1,
                          !.received[ret.task[w].of] = @ + 1]
    /\ UNCHANGED fnFrame

\* download_file returns Ok(true): files.inc_success(1)
CmdOk(w) ==
    /\ arg.fn = "cmd"
    /\ ret.task[w].busy
    /\ ret.task[w].got = 1
    /\ ret' = [ret EXCEPT !.task[w] = CmdIdle, !.files.success = @ + 1]
    /\ UNCHANGED fnFrame

\* download_file returns Err(Download): bytes.inc_skipped(size), files.inc_skipped(1)
CmdErr(w) ==
    /\ arg.fn = "cmd"
    /\ ret.task[w].busy
    /\ ret.faults < MaxFaults
    /\ ret' = [ret EXCEPT !.task[w] = CmdIdle, !.files.skipped = @ + 1,
                          !.bytes.skipped = @ + 1, !.faults = @ + 1]
    /\ UNCHANGED fnFrame

CmdDriver ==
    \/ CmdRun
    \/ CmdNextStep
    \/ CmdQueue
    \/ CmdWaitReturn
    \/ CmdFinalize

CmdWorker(w) ==
    \/ CmdRecv(w)
    \/ CmdChunk(w)
    \/ CmdOk(w)

NextCmd ==
    \/ CmdRun
    \/ CmdNextStep
    \/ CmdQueue
    \/ CmdStepErr
    \/ CmdWaitReturn
    \/ CmdStepEnd
    \/ CmdWaitPanic
    \/ CmdFinalize
    \/ \E w \in Workers : CmdRecv(w)
    \/ \E w \in Workers : CmdSkip(w)
    \/ \E w \in Workers : CmdChunk(w)
    \/ \E w \in Workers : CmdOk(w)
    \/ \E w \in Workers : CmdErr(w)

SpecCmd == InitCmd /\ [][NextCmd]_vars

\* the tokio runtime schedules the driver and every download task again and again, and
\* every transfer ends
SpecCmdFair ==
    /\ InitCmd
    /\ [][NextCmd]_vars
    /\ WF_vars(CmdDriver)
    /\ \A w \in Workers : WF_vars(CmdWorker(w))

\* ------------------------------------------------ inline-signed release ----
\* an InRelease file: lines before the armour, `-----BEGIN PGP SIGNED MESSAGE-----`, the
\* Hash header, a blank line, the signed body, the signature block, lines after it
Ln(kind, id) == [kind |-> kind, form |-> "ok", accepted |-> (kind = "FileEntry"), id |-> id]

BodyLines == {Ln("Metadata", "x"), Ln("Sha256Start", NoId), Ln("FileEntry", "a")}
LeadingLines == {Ln("Metadata", "y"), Ln("Sha256Start", NoId), Ln("Unknown", NoId)}
TrailingLines == LeadingLines \cup {Ln("FileEntry", "a"), Ln("FileEntry", "b")}

SeqsUpTo(set, n) == UNION {[1..k -> set] : k \in 0..n}

inline_file(pre, body, post) ==
    pre \o <<Ln("PGPSignedMessageStart", NoId), Ln("Metadata", "x"), Ln("Unknown", NoId)>>
        \o body
        \o <<Ln("PGPSignatureStart", NoId), Ln("Unknown", NoId), Ln("PGPSignatureEnd", NoId)>>
        \o post

\* the position of the first line of a kind, 0 if there is none
FirstOf(lines, kind) ==
    IF \E i \in 1..Len(lines) : lines[i].kind = kind
    THEN CHOOSE i \in 1..Len(lines) :
            /\ lines[i].kind = kind
            /\ \A j \in 1..(i - 1) : lines[j].kind # kind
    ELSE 0

\* CleartextSignedMessage::signed_text: the lines between the blank line that ends the
\* armour headers and the signature block
signed_text(lines) ==
    SubSeq(lines, FirstOf(lines, "PGPSignedMessageStart") + 3,
           FirstOf(lines, "PGPSignatureStart") - 1)

\* KeyStore::verify_inlined: CleartextSignedMessage::from_string reads the first armoured
\* message of the content and the signature block that follows it; what comes after
\* `END PGP SIGNATURE` is not looked at; whether text before the armour is an error is
\* left to the library (leading_ok). The signature is then verified over signed_text
\* with the keys of the store (sig_ok)
verify_inlined(lines, sig_ok, leading_ok) ==
    /\ FirstOf(lines, "PGPSignedMessageStart") > 0
    /\ FirstOf(lines, "PGPSignedMessageStart") = 1 \/ leading_ok
    /\ sig_ok

\* Release::parse, the loop over the lines of the whole file from position pos
RECURSIVE parse_from(_, _, _)
parse_from(lines, pos, p) ==
    IF p.result # "none" THEN p
    ELSE IF pos > Len(lines) THEN [p EXCEPT !.result = "Ok"]
    ELSE parse_from(lines, pos + 1, parse_line(p, lines[pos]))

\* what the release step has of a parsed file: the result, the header map, the file table
Parsed(lines) ==
    LET p == parse_from(lines, 1, ParserStart)
    IN  [verified |-> TRUE, result |-> p.result,
         map |-> IF p.result = "Ok" THEN p.map ELSE NoId,
         files |-> IF p.result = "Ok" THEN p.files ELSE ParserStart.files]

NotVerified ==
    [verified |-> FALSE, result |-> "PgpNotVerified", map |-> NoId, files |-> ParserStart.files]

InitInline ==
    /\ \E body \in SeqsUpTo(BodyLines, MaxBody),
          pre1, pre2 \in SeqsUpTo(LeadingLines, MaxOutside),
          post1, post2 \in SeqsUpTo(TrailingLines, MaxOutside),
          s, l \in BOOLEAN :
          arg = [fn |-> "inline", sig_ok |-> s, leading_ok |-> l,
                 file |-> <<inline_file(pre1, body, post1), inline_file(pre2, body, post2)>>]
    /\ ret = [done |-> <<FALSE, FALSE>>, out |-> <<NotVerified, NotVerified>>]
    /\ VerifierAtRest
    /\ PipelineAtRest
    /\ MainAtRest
    /\ LockAtRest
    /\ PgpAtRest

\* DownloadRelease::execute on file i: verify_release_signature fails and the step
\* returns the error
InlineRejected(i) ==
    /\ arg.fn = "inline"
    /\ ~ret.done[i]
    /\ ~verify_inlined(arg.file[i], arg.sig_ok, arg.leading_ok)
    /\ ret' = [ret EXCEPT !.done[i] = TRUE, !.out[i] = NotVerified]
    /\ UNCHANGED fnFrame

\* DownloadRelease::execute on file i: the signature is verified, then
\* Release::parse(release_file, ..) reads the file
InlineParsed(i) ==
    /\ arg.fn = "inline"
    /\ ~ret.done[i]
    /\ verify_inlined(arg.file[i], arg.sig_ok, arg.leading_ok)
    /\ ret' = [ret EXCEPT !.done[i] = TRUE, !.out[i] = Parsed(arg.file[i])]
    /\ UNCHANGED fnFrame

NextInline ==
    \/ \E i \in 1..2 : InlineRejected(i)
    \/ \E i \in 1..2 : InlineParsed(i)

SpecInline == InitInline /\ [][NextInline]_vars

\* ------------------------------------------- release step, prune_existing ----
\* what lies at root_dir/<dist>/<path> of a listed file: nothing, a regular file with a
\* digest, a symlink to a file named by a digest, a symlink to a file of another name
OldFiles ==
    [exists : {FALSE}, symlink : {FALSE}, named_by_checksum : {FALSE}, checksum : {NoHash}]
    \cup [exists : {TRUE}, symlink : {FALSE}, named_by_checksum : {FALSE}, checksum : HexValues]
    \cup [exists : {TRUE}, symlink : {TRUE}, named_by_checksum : {TRUE}, checksum : HexValues]
    \cup [exists : {TRUE}, symlink : {TRUE}, named_by_checksum : {FALSE}, checksum : {NoHash}]

\* a listed file: the hash of its entry (none for an entry without hashes) and what
\* lies at its path under root_dir
ListedFiles == [hash : {"a", NoHash}, old : OldFiles]

\* the committed release file (none, or its digest) and the downloaded one
NoLocalRelease == ""
ReleaseInputs ==
    [local : {NoLocalRelease} \cup HexValues, new : HexValues,
     listed : UNION {[1..n -> ListedFiles] : n \in 0..NumEntries}]

\* FileEntry::has_checksum
has_checksum(entry_hash, checksum) == entry_hash # NoHash /\ entry_hash = checksum

\* valid_file
valid_file(old, entry_hash) ==
    IF old.exists
    THEN IF old.symlink
         THEN IF old.named_by_checksum THEN has_checksum(entry_hash, old.checksum) ELSE FALSE
         ELSE IF entry_hash # NoHash THEN old.checksum = entry_hash ELSE FALSE
    ELSE FALSE

\* Release::prune_existing: the entries whose file under root_dir is not valid are kept
prune_existing(listed) ==
    {i \in 1..Len(listed) : ~valid_file(listed[i].old, listed[i].hash)}

\* DownloadRelease::execute: `output.new_release = local_checksum != new_checksum` when
\* the committed release file exists (the field is false by default)
new_release(local, new) == local # NoLocalRelease /\ local # new

InitRelease ==
    /\ \E in \in ReleaseInputs :
          arg = [fn |-> "release", local |-> in.local, new |-> in.new, listed |-> in.listed]
    /\ ret = [done |-> FALSE, result |-> "none", new_release |-> FALSE, files |-> {}]
    /\ VerifierAtRest
    /\ PipelineAtRest
    /\ MainAtRest
    /\ LockAtRest
    /\ PgpAtRest

\* DownloadRelease::execute: release.files is empty after prune_existing,
\* StepResult::End(MirrorResult::ReleaseUnchanged)
ReleaseUnchanged ==
    /\ arg.fn = "release"
    /\ ~ret.done
    /\ prune_existing(arg.listed) = {}
    /\ ret' = [done |-> TRUE, result |-> "ReleaseUnchanged",
               new_release |-> new_release(arg.local, arg.new), files |-> {}]
    /\ UNCHANGED fnFrame

\* DownloadRelease::execute: files are left to fetch, StepResult::Continue
ReleaseContinue ==
    /\ arg.fn = "release"
    /\ ~ret.done
    /\ prune_existing(arg.listed) # {}
    /\ ret' = [done |-> TRUE, result |-> "Continue",
               new_release |-> new_release(arg.local, arg.new),
               files |-> prune_existing(arg.listed)]
    /\ UNCHANGED fnFrame

NextRelease ==
    \/ ReleaseUnchanged
    \/ ReleaseContinue

SpecRelease == InitRelease /\ [][NextRelease]_vars

\* -------------------------------------------- staging directory lock ----
\* the processes started for one target
Invocations == 1..NumInvocations

InitLock ==
    /\ inv = [i \in Invocations |-> "build"]
    /\ lockDir \in BOOLEAN
    /\ PipelineAtRest
    /\ MainAtRest
    /\ PgpAtRest
    /\ FnAtRest

\* create_tmp_dir: `match std::fs::metadata(&tmp_dir)` -- Ok(_) is answered with Tmp,
\* NotFound goes on to create the directory
CheckTmpDir(i) ==
    /\ inv[i] = "build"
    /\ inv' = [inv EXCEPT ![i] = IF lockDir THEN "tmp_error" ELSE "not_found"]
    /\ UNCHANGED lockDir
    /\ UNCHANGED <<pipelineVars, mainVars, pgpVars, fnVars, verifierVars>>

\* create_tmp_dir, NotFound arm: `std::fs::create_dir_all(&tmp_dir)?; Ok(tmp_dir)` --
\* create_dir_all also returns Ok when the directory is there by now
CreateTmpDir(i) ==
    /\ inv[i] = "not_found"
    /\ lockDir' = TRUE
    /\ inv' = [inv EXCEPT ![i] = "running"]
    /\ UNCHANGED <<pipelineVars, mainVars, pgpVars, fnVars, verifierVars>>

\* the run of an invocation that obtained the directory ends: finalize or delete_tmp
\* removes the staging directory (remove_dir_all)
RemoveTmpDir(i) ==
    /\ inv[i] = "running"
    /\ lockDir' = FALSE
    /\ inv' = [inv EXCEPT ![i] = "ended"]
    /\ UNCHANGED <<pipelineVars, mainVars, pgpVars, fnVars, verifierVars>>

NextLock ==
    \/ \E i \in Invocations : CheckTmpDir(i)
    \/ \E i \in Invocations : CreateTmpDir(i)
    \/ \E i \in Invocations : RemoveTmpDir(i)

SpecLock == InitLock /\ [][NextLock]_vars

\* --------------------------------------------- signature verification ----
\* pgp::verify_release_signature; inline_ok / standalone_ok: what KeyStore::verify_inlined
\* and KeyStore::verify_standalone answer for the downloaded files
verify_release_signature(downloaded, inline_ok, standalone_ok) ==
    IF "InRelease" \in downloaded
    THEN IF inline_ok THEN "Ok" ELSE "PgpNotVerified"
    ELSE IF "Release" \notin downloaded THEN "PgpNotSupported"
    ELSE IF "Release.pgp" \notin downloaded THEN "PgpNotSupported"
    ELSE IF standalone_ok THEN "Ok" ELSE "PgpNotVerified"

\* the release files are those of release_urls that could be downloaded
InitPgp ==
    /\ pgpIn \in [files : SUBSET RelNameSet, pgp_verify : BOOLEAN,
                  inline_ok : BOOLEAN, standalone_ok : BOOLEAN]
    /\ pgpOut = "none"
    /\ PipelineAtRest
    /\ MainAtRest
    /\ LockAtRest
    /\ FnAtRest

\* DownloadRelease::execute: `if ctx.mirror_opts.pgp_verify { verify_release_signature(..)? }`
VerifyRelease ==
    /\ pgpOut = "none"
    /\ pgpOut' = IF pgpIn.pgp_verify
                 THEN verify_release_signature(pgpIn.files, pgpIn.inline_ok, pgpIn.standalone_ok)
                 ELSE "NotRequested"
    /\ UNCHANGED pgpIn
    /\ UNCHANGED <<pipelineVars, mainVars, lockVars, fnVars, verifierVars>>

NextPgp == VerifyRelease

SpecPgp == InitPgp /\ [][NextPgp]_vars

\* ------------------------------------------------------- properties ----
\* mirror() returns: the driver reaches the end of the invocation
EndsRun == pc # "done" /\ pc' = "done"

\* the error results of mirror()
AllErrors == StepErrors \cup {"ErrFinalize", "ErrIo", "ErrTmp"}

\* positions in which a step enqueues and then waits for the downloader
Queuing == {"S2q", "S3q", "S4q", "S5q"}

\* the digest the new manifest, or the index that was traversed, states for a path
Expected(p) ==
    IF p[1] \in RelNameSet THEN up.ver
    ELSE IF p[1] \in MetaNames THEN release.pkh
    ELSE traversed[p[1]]

\* C1 as stated: right after a run the set of files under root_dir equals the set before
\* the run when the run failed or ended with ReleaseUnchanged, and is otherwise a
\* superset of it whose additional files match the new manifest.
C1_AsStated ==
    [][EndsRun =>
         IF result' \in AllErrors \cup {"ReleaseUnchanged"}
         THEN Present(root') = Present(root0')
         ELSE /\ Present(root0') \subseteq Present(root')
              /\ \A p \in Present(root') \ Present(root0') :
                    ContentAt(root', p) = Expected(p)']_vars

\* C1: right after a run root_dir is what it was before the run when the run ended with
\* ReleaseUnchanged or failed before stage S3 (Tmp, DownloadRelease); after every
\* other run, failed ones included, each path whose entry differs from before the run
\* is the destination of a diff or package download, a path the commit moved out of
\* staging, or a path under paths_to_delete.
C1_RootDelta ==
    [][EndsRun =>
         IF result' \in {"ReleaseUnchanged", "ErrTmp", "ErrDownloadRelease"}
         THEN root' = root0'
         ELSE \A p \in Paths :
                 root'[p] # root0'[p] =>
                    \/ p[1] \in {"deb", "diff"}
                    \/ p \in moved'
                    \/ p \in deletePaths']_vars

\* a run failed in a later step and left a downloaded package under root_dir
C1_Witness ==
    /\ pc = "done"
    /\ result \in {"ErrDownloadPackages", "ErrDownloadDebianInstaller", "ErrFinalize"}
    /\ root0[<<"deb", 0>>].t = "none"
    /\ root[<<"deb", 0>>].t = "file"

\* C2 as stated: every run that created a staging directory ends, on every exit path,
\* with that staging directory gone.
C2_AsStated ==
    [][(EndsRun /\ result' # "ErrTmp") => ~tmpDir']_vars

C6_AsStated ==
    (pc = "done" /\ result \in CommitResults) =>
        \A i \in 1..Len(ManifestSeq) :
            /\ Exists(root, <<ManifestSeq[i], 0>>)
            /\ ContentAt(root, <<ManifestSeq[i], 0>>) = release.pkh

\* C7 as stated: a second run against an unchanged upstream ends with ReleaseUnchanged
\* after the first step and leaves root_dir as it was.
C7_AsStated ==
    (pc = "done" /\ run >= 2 /\ ~upChanged) =>
        (result = "ReleaseUnchanged" /\ step = 1 /\ root = root0)

\* C7: a run without --force against an upstream that did not change since the previous
\* run, when that run committed or ended with ReleaseUnchanged, ends with
\* ReleaseUnchanged after the first step and leaves root_dir as it was.
C7_Idempotent ==
    (/\ pc = "done" /\ run >= 2 /\ ~upChanged /\ ~force
     /\ prevResult \in CommitResults \cup {"ReleaseUnchanged"}) =>
        (result = "ReleaseUnchanged" /\ step = 1 /\ root = root0 /\ ~tmpDir)

\* the second run after a committed one ended with ReleaseUnchanged
C7_Witness ==
    /\ pc = "done" /\ run = 2 /\ ~upChanged /\ ~force
    /\ prevResult = "NewRelease"
    /\ result = "ReleaseUnchanged"

\* C8 as stated: the workers issue at most one HTTP fetch per fingerprint and run.
C8_AsStated ==
    \A n \in Names : fetches[n] <= 1

\* C9 as stated: no step begins while a request of an earlier step is queued or in
\* flight, and a step returns only after the downloader has drained.
C9_AsStated ==
    [][(step' > step \/ (pc \in Queuing /\ pc' \notin Queuing)) => Drained]_vars

\* C10 as stated: at every stage boundary files.total equals the sum of the outcome
\* counters (failures are counted in files.skipped).
C10_AsStated ==
    [][(pc \in Queuing /\ pc' \notin Queuing) =>
          files'.total = files'.success + files'.skipped]_vars

\* the step whose Err arm builds an error result (Step::error)
StepOfError(res) ==
    IF res = "ErrDownloadRelease" THEN 1
    ELSE IF res = "ErrInconsistentRepository" THEN 2
    ELSE IF res = "ErrDownloadDiffs" THEN 3
    ELSE IF res = "ErrDownloadPackages" THEN 4
    ELSE 5

\* the step that yields an End result, or the last configured step for the plain finalize
StepOfEnd(res) ==
    IF res = "ReleaseUnchanged" THEN 1
    ELSE IF res = "IrrelevantChanges" THEN 2
    ELSE IF di THEN 5 ELSE 4

\* C11: the driver executes the steps strictly in their configured order; once a step
\* yielded End(result) or an error no later step is executed; the run is finalized exactly
\* once, with the End result of the step that yielded it, with the error built by the
\* failing step itself, or with the plain finalize after the last configured step
C11_StepOrder ==
    [][/\ step' # step =>
            \/ step' = step + 1 /\ result = "none" /\ pc # "done"
            \/ step' = 0 /\ pc = "done" /\ pc' = "idle"
       /\ result' # result =>
            \/ EndsRun /\ result = "none" /\ result' # "none"
            \/ result' = "none" /\ pc = "done" /\ pc' = "idle"
       /\ EndsRun => result' # "none"
       /\ (EndsRun /\ result' \in StepErrors) => step' = StepOfError(result')
       /\ (EndsRun /\ result' \in {"ReleaseUnchanged", "IrrelevantChanges", "NewRelease"}) =>
            step' = StepOfEnd(result')]_vars

\* a run ended by the error of its third step, two steps after the first one
C11_Witness ==
    /\ pc = "done"
    /\ result = "ErrDownloadDiffs"
    /\ step = 3

\* C15 (as stated): when S2 is left after the pool drained and a metadata download of the
\* stage failed, the run ends with InconsistentRepository
C15_AsStated ==
    [][(pc = "S2q" /\ pc' # "S2q" /\ \E n \in MetaNames : "failed" \in outcomes[n]) =>
         result' = "ErrInconsistentRepository"]_vars

\* C16 (as stated): when the commit fails with Finalize the staging directory is left in
\* place
C16_AsStated ==
    [][(EndsRun /\ result' = "ErrFinalize") => tmpDir']_vars

\* C16 (amended): when the commit after the last step fails with an I/O error the run ends
\* with Finalize and the staging directory is deleted with all it holds
C16_FinalizeDeletesStaging ==
    [][(EndsRun /\ result' = "ErrFinalize") => (~tmpDir' /\ Present(tmp') = {})]_vars

\* a commit failed after some staged file had been moved; the staging directory is gone
C16_Witness ==
    /\ pc = "done"
    /\ result = "ErrFinalize"
    /\ moved # {}
    /\ ~tmpDir

\* C17: every path to delete is absent from root_dir when the first staged file is moved,
\* and once the walk has started no path to delete is removed from root_dir
C17_DeleteBeforeWalk ==
    [][/\ (moved = {} /\ moved' # {}) => \A p \in deletePaths : root[p].t = "none"
       /\ (pc = "rebase" /\ moved # {}) =>
            \A p \in deletePaths : root[p].t # "none" => root'[p].t # "none"]_vars

\* the walk has started after installer files of the previous run were removed
C17_Witness ==
    /\ pc = "rebase"
    /\ moved # {}
    /\ \E p \in deletePaths : root0[p].t = "file" /\ p \notin moved /\ root[p].t = "none"

\* C19 (as stated): when the process ends and the sending side of the channel is dropped,
\* no request is left in the queue without having been executed
C19_AsStated ==
    [][(pc = "done" /\ pc' = "idle") => queue = <<>>]_vars

\* the targets main went through, whatever their end
AttemptedTargets == {attempted[j].target : j \in 1..Len(attempted)}

\* the targets the config names
ConfiguredTargets == {opts[i].target : i \in 1..Len(opts)}

\* C13 (as stated): when main has ended, every configured target has been attempted,
\* whatever error another target ended with
C13_AsStated ==
    mpc = "exit" => ConfiguredTargets \subseteq AttemptedTargets

\* C14 (as stated): when main has ended after all targets were attempted, the exit status
\* is 0 exactly if every target ended with a success outcome
C14_AsStated ==
    (mpc = "exit" /\ opts # <<>> /\ ConfiguredTargets \subseteq AttemptedTargets) =>
        (exitCode = 0 <=> \A j \in 1..Len(attempted) : attempted[j].result \in Successes)

\* a line of the config that is not empty and lacks the prefix, the URL or the suite
Malformed(line) == line.first # "" /\ ~(line.first = "deb" /\ line.words = 2)

\* C20 (as stated): with a malformed line in the config read_config returns an error, the
\* process ends with a non-zero status and no target is mirrored
C20_AsStated ==
    (mpc # "start" /\ config.readable /\ \E i \in 1..Len(config.lines) : Malformed(config.lines[i])) =>
        (mpc = "exit" /\ exitCode = 1 /\ attempted = <<>>)

\* C20 (amended): read_config fails exactly when the file cannot be read or no line names
\* a target with URL and suite; then the process ends with status 1 and nothing is
\* mirrored.  Otherwise the malformed lines are skipped and the targets to mirror are
\* those of the well-formed lines
C20_MalformedSkipped ==
    mpc # "start" =>
        LET wellFormed == {i \in 1..Len(config.lines) :
                             config.lines[i].first = "deb" /\ config.lines[i].words = 2}
        IN IF ~config.readable \/ wellFormed = {}
           THEN mpc = "exit" /\ exitCode = 1 /\ opts = <<>> /\ attempted = <<>>
           ELSE ConfiguredTargets = {config.lines[i].target : i \in wellFormed}

\* main has mirrored a target of a config that has a malformed line
C20_Witness ==
    /\ mpc = "exit"
    /\ \E i \in 1..Len(config.lines) : Malformed(config.lines[i])
    /\ \E j \in 1..Len(attempted) : attempted[j].result = "NewRelease"

\* C12 (as stated): of the invocations running concurrently for one target at most one
\* has obtained the staging directory and proceeds
C12_AsStated ==
    Cardinality({i \in Invocations : inv[i] = "running"}) <= 1

\* C18 (as stated): when verification is requested, a downloaded InRelease is verified as
\* an inline-signed message; without it, a downloaded Release with a downloaded Release.gpg
\* is verified by the detached signature; only with neither does the verification fail for
\* lack of a signature
C18_AsStated ==
    (pgpOut # "none" /\ pgpIn.pgp_verify) =>
        IF "InRelease" \in pgpIn.files
        THEN pgpOut = (IF pgpIn.inline_ok THEN "Ok" ELSE "PgpNotVerified")
        ELSE IF {"Release", "Release.gpg"} \subseteq pgpIn.files
        THEN pgpOut = (IF pgpIn.standalone_ok THEN "Ok" ELSE "PgpNotVerified")
        ELSE pgpOut = "PgpNotSupported"

\* C21 (as stated): merge_similar returns exactly one target per distinct (URL, suite), its
\* components are the duplicate-free union of those of the lines it merges and its flags
\* are the OR of theirs
C21_AsStated ==
    (arg.fn = "merge_similar" /\ ret.done) =>
        LET ms == arg.mirrors
            out == ret.val
            of(t) == {i \in 1..Len(ms) : ms[i].target = t}
        IN /\ {out[k].target : k \in 1..Len(out)} = {ms[i].target : i \in 1..Len(ms)}
           /\ \A k, l \in 1..Len(out) : k # l => out[k].target # out[l].target
           /\ \A k \in 1..Len(out) :
                /\ Range(out[k].components) = UNION {Range(ms[i].components) : i \in of(out[k].target)}
                /\ DuplicateFree(out[k].components)
                /\ out[k].source = (\E i \in of(out[k].target) : ms[i].source)
                /\ out[k].packages = (\E i \in of(out[k].target) : ms[i].packages)

\* two "/" in a row, or a "/" at the end: an empty path segment
EmptySegment(url) ==
    \/ \E k \in 1..(Len(url) - 1) : url[k] = "/" /\ url[k + 1] = "/"
    \/ url[Len(url)] = "/"

\* C22 (as stated): for a flat target the release URLs are <url>/InRelease, <url>/Release
\* and <url>/Release.gpg, without `dists` and without an empty path segment, and the filter
\* accepts every root-level file whose name matches the prefix whitelist, whatever the
\* components
C22_AsStated ==
    (arg.fn = "flat" /\ ret.done /\ flat(arg.suite)) =>
        /\ \A i \in 1..Len(ReleaseNames) :
             /\ ret.urls[i] = arg.url \o <<"/", ReleaseNames[i]>>
             /\ "dists" \notin Range(ret.urls[i])
             /\ ~EmptySegment(ret.urls[i])
        /\ (Len(arg.path) = 1 /\ arg.path[1].stem \in file_prefix_filter(arg.opts)) => ret.accepted

C24_AsStated ==
    (arg.fn = "prune" /\ ret.done) =>
        \A i \in Entries :
            ~arg.tree[i].excluded =>
                ((i \notin ret.present) <=>
                    /\ ~arg.dry_run
                    /\ \/ rel_path(i) \notin Inventoried(arg.tree)
                       \/ arg.tree[i].size = 0
                       \/ Dangling(arg.tree[i]))

C26_AsStated ==
    (arg.fn = "download_file" /\ ret.done /\ ret.sent /\ arg.response # "body") =>
        /\ ret.fs[arg.dl.path].t = "none"
        /\ ret.result = (IF arg.response = "not_found" THEN "Download" ELSE "Checksum")
        /\ \A l \in arg.dl.links : ret.fs[l] = arg.fs[l]

\* C27 (as stated): when S2 has gone through the manifest, an entry it did not turn into a
\* download request has both its committed path and the by-hash path of its strongest
\* hash in root_dir
C27_AsStated ==
    [][(pc = "S2" /\ pc' = "S2q") =>
          \A n \in Range(ManifestSeq) :
              (\A i \in 1..Len(todo') : todo'[i].name # n) =>
                  (Exists(root, <<n, 0>>) /\ Exists(root, <<n, release.pkh>>))]_vars

\* the fields of an entry that hold a hash, strongest first
PresentHashes(entry) == SelectSeq(<<1, 2, 3, 4>>, LAMBDA i : entry[i] # NoHash)

\* <parent>/by-hash/<algo>/<hex> of the i-th field of an entry
ByHashPath(file_path, entry, i) ==
    parent(file_path) \o <<"/", "by-hash", "/", HashDirs[i], "/", entry[i]>>

\* C28: for an entry with at least one hash the request has the strongest hash as expected
\* checksum; with by_hash its primary path is the by-hash path of the strongest hash and its
\* symlinks are the human-readable path, then the by-hash path of each weaker present hash,
\* each once; without by_hash the primary path is the human-readable path and there is no
\* symlink.  by_hash is used exactly when Acquire-By-Hash is yes and the file is no sum file
C28_IntoPaths ==
    (arg.fn = "into_paths" /\ ret.done /\ PresentHashes(arg.entry) # <<>>) =>
        LET present == PresentHashes(arg.entry)
        IN  /\ ret.ok
            /\ ret.by_hash = (arg.field = "yes" /\ arg.kind # "SumFile")
            /\ ret.checksum.some
            /\ ret.checksum.algo = present[1]
            /\ ret.checksum.hex = arg.entry[present[1]]
            /\ IF ret.by_hash
               THEN /\ ret.primary_target_path = ByHashPath(arg.file_path, arg.entry, present[1])
                    /\ ret.symlink_paths =
                          <<arg.file_path>> \o
                          [i \in 1..(Len(present) - 1) |->
                              ByHashPath(arg.file_path, arg.entry, present[i + 1])]
                    /\ DuplicateFree(ret.symlink_paths)
               ELSE /\ ret.primary_target_path = arg.file_path
                    /\ ret.symlink_paths = <<>>

\* a by-hash request for an entry with three hashes, two of them with the same digits
C28_Witness ==
    /\ arg.fn = "into_paths"
    /\ ret.done
    /\ ret.by_hash
    /\ Len(PresentHashes(arg.entry)) = 3
    /\ arg.entry[2] # NoHash /\ arg.entry[2] = arg.entry[4]
    /\ Len(ret.symlink_paths) = 3

C30_AsStated ==
    [][(/\ arg.fn = "parse"
        /\ ~ret.done
        /\ ret.pos < Len(arg.lines)
        /\ arg.lines[ret.pos + 1].kind = "FileEntry"
        /\ ret.checksum_state = "No") =>
          (ret'.done /\ ret'.result = "ParsingRelease")]_vars

\* C31 (as stated): when Release::parse has succeeded, every entry of the file table has
\* at least one hash
C31_AsStated ==
    (arg.fn = "parse" /\ ret.done /\ ret.result = "Ok") =>
        \A f \in ListedPaths : ret.files[f].present => ret.files[f].hashes # {}

\* the paragraph of the index that holds line i: the lines between the blank lines
\* (or the ends of the file) around it
ParagraphOf(lines, i) ==
    {j \in 1..Len(lines) : \A k \in 1..Len(lines) :
        ((i <= k /\ k <= j) \/ (j <= k /\ k <= i)) => lines[k] # "Blank"}

\* the strongest checksum type among the hash fields of a set of lines, NoHash if none
StrongestOf(lines, para) ==
    IF \E j \in para : lines[j] \in ChecksumTypes
    THEN CHOOSE t \in ChecksumTypes :
            /\ \E j \in para : lines[j] = t
            /\ \A j \in para : lines[j] \in ChecksumTypes => bits(lines[j]) <= bits(t)
    ELSE NoHash

\* C32 (as stated): the checksum of every emitted entry is the strongest among the hash
\* fields of its paragraph, whatever their order
C32_AsStated ==
    arg.fn = "packages" =>
        \A i \in 1..Len(ret.entries) :
            ret.entries[i].checksum =
                StrongestOf(arg.lines, ParagraphOf(arg.lines, ret.entries[i].path))

\* the paths of the paragraphs that carry both Filename and Size: the position of the last
\* Filename line of each such paragraph
CompleteParagraphs(lines) ==
    {i \in 1..Len(lines) :
        /\ lines[i] = "Filename"
        /\ \A j \in ParagraphOf(lines, i) : lines[j] = "Filename" => j <= i
        /\ \E j \in ParagraphOf(lines, i) : lines[j] = "Size"}

\* C39 (as stated): when the iteration over a Packages index has ended, the entries
\* yielded are, in file order and once each, those of the paragraphs that carry both
\* Filename and Size
C39_AsStated ==
    (arg.fn = "packages" /\ ret.done) =>
        /\ {ret.entries[i].path : i \in 1..Len(ret.entries)} = CompleteParagraphs(arg.lines)
        /\ \A i, j \in 1..Len(ret.entries) :
              i < j => ret.entries[i].path < ret.entries[j].path

\* the input files of the group of a canonical path
Group(list, canonical) ==
    {list[i] : i \in {j \in 1..Len(list) : canonical_path(list[j]) = canonical}}

\* C33 (as stated): after the collapse, for every group (parent directory, stem) of the
\* input exactly one of its files is kept, a compressed one if the group has one, and
\* nothing else is kept
C33_AsStated ==
    (arg.fn \in {"deduplicate", "packages", "filtered"} /\ ret.done) =>
        /\ ret.kept \subseteq {arg.list[i] : i \in 1..Len(arg.list)}
        /\ \A i \in 1..Len(arg.list) :
              LET group == Group(arg.list, canonical_path(arg.list[i]))
              IN  /\ Cardinality(ret.kept \cap group) = 1
                  /\ (\E f \in group : f.ext # NoExtension) =>
                        \A f \in ret.kept \cap group : f.ext # NoExtension

\* C34 (as stated): when the driver has finalized a run (commit or rollback, an error
\* of a step part-way through enqueuing included), no request of the run is queued or in
\* flight
C34_AsStated ==
    pc = "done" => Drained

\* C35 (as stated): in every state of the progress counters of the downloader,
\* files.success + files.skipped <= files.total
C35_AsStated ==
    arg.fn = "cmd" => ret.files.success + ret.files.skipped <= ret.files.total

\* C36 (as stated): under fair scheduling of the driver and of the download tasks, with
\* every transfer ending, every call of wait_for_completion returns: the run goes on to
\* its next step or to its finalization
C36_AsStated ==
    (arg.fn = "cmd" /\ ret.cpc = "wait") ~> (ret.cpc \in {"step", "run", "exit"})

\* C37 (as stated): two InRelease files with the same signed body and signature, both
\* verified, give the same header map and file table, whatever lines stand before the
\* armour or after the signature block
C37_AsStated ==
    (/\ arg.fn = "inline"
     /\ ret.done[1] /\ ret.done[2]
     /\ ret.out[1].verified /\ ret.out[2].verified) =>
        ret.out[1] = ret.out[2]

\* C38 (as stated): the release step ends the run with ReleaseUnchanged only if the
\* downloaded release file has the checksum of the committed one
C38_AsStated ==
    (arg.fn = "release" /\ ret.done /\ ret.result = "ReleaseUnchanged") =>
        (arg.local # NoLocalRelease /\ arg.local = arg.new)

\* C40 (as stated): the total reported in NewRelease is the number of bytes downloaded
\* for the requests of that run
C40_AsStated ==
    arg.fn = "cmd" =>
        \A i \in 1..Len(ret.results) :
            ret.results[i].kind = "NewRelease" =>
                ret.results[i].total = ret.results[i].received

====
